---- MODULE Spec2Model ----
(***************************************************************************)
(* A model of the proxyx Redis proxy (package redisproxy and its main):    *)
(* the RESP2/RESP3 wire decoder of redisproxy/handler.go, the relay loop   *)
(* Handler.HandleConnection, the PluginManager and the process start-up    *)
(* and shutdown of main / startRedisProxy.                                 *)
(*                                                                         *)
(* A byte is a one-character string; a byte stream, a Go string and a Go   *)
(* []byte are sequences of bytes.  A Go error is a string, "" being nil.   *)
(***************************************************************************)
EXTENDS Integers, Sequences, FiniteSets, TLC

VARIABLES
    \* ---- the process: main and startRedisProxy
    mainPc,      \* main: "start", "wait", "exited"; "crashed" when the runtime
                 \* has ended the process (a panic, a fatal error)
    proxyPc,     \* position of the startRedisProxy goroutine
    plugins,     \* PluginManager.plugins of the Redis proxy
    closeLog,    \* the observers whose Close was called, in call order
    nSent,       \* number of commands the clients have sent, all together
    meddling,    \* per Session: the observers overwrite the Events of its dispatches
    peers,       \* the surroundings of this run: what the clients and the
                 \* backend send, where connections break, the machine's memory
    \* ---- one Session (HandleConnection goroutine) per connection
    pc,          \* position of the session in HandleConnection: the call it
                 \* is at, or waits in
    conns,       \* the sockets the session holds open: "client", "server"
    clientBuf,   \* bytes the client sent that the session has not consumed
    clientEOF,   \* the client closed its sending side
    serverBuf,   \* bytes the backend sent that the session has not consumed
    serverEOF,   \* the backend closed its sending side
    toServer,    \* every byte the session wrote to the backend socket
    toClient,    \* every byte the session wrote to the client socket
    event,       \* the CommandEvent of the current iteration
    cmdRaw,      \* the local raw of the current iteration
    startTime,   \* the local startTime of the current iteration
    respRaw,     \* the local respRaw of the current iteration
    trace,       \* what the session did, in order (history)
    \* ---- the decoder harness
    dkind,       \* which input the unit is: "cmd", "resp", "str", "agg" (valid),
                 \* "brokencmd", "fault", "cut" (broken); "none" before
    unit,        \* the unit handed to the decoder, as bytes
    depth,       \* aggregate nesting depth of unit
    dres,        \* the decoder's result on the stream of unit, or NoResult
    \* ---- the PluginManager harness
    hPlugins,    \* PluginManager.plugins
    hPc,         \* "register" or "closed"
    hFails,      \* the observers whose Close returns an error
    hCalls,      \* the Close calls made, in order, with what they returned
    hRet,        \* what PluginManager.Close returned
    \* ---- the RedisPlugin harness
    config,      \* RedisPlugin.config: UseList and MaxListLen
    list,        \* the list at config.ListKey in the external store, newest first
    pushed,      \* the records the store has appended, oldest first (history)
    trimFailed,  \* the LTrim commands that have failed since the last that worked
    call,        \* per Session: where its completion dispatch is, and its history
    nCalls,      \* number of dispatches begun, all Sessions together
    \* ---- the MySQL variant: one ProxyHandler and its observers
    currentDB,   \* ProxyHandler.currentDB
    qpc,         \* the backend call the handler waits in; "idle"; "closed"
    qevent,      \* the QueryEvent of the running method
    qstart,      \* the local startTime of the running method
    qlog,        \* the calls made, in order (history)
    nQueries,    \* number of Events created
    prepared,    \* the client holds a prepared statement
    predicate,   \* FilterPlugin.predicate; "unset" before NewFilterPlugin
    \* ---- the web server
    clients,     \* Server.clients: the connections in the map
    clientsMu,   \* Server.clientsMu: who holds it, to write and to read
    wpc,         \* per goroutine: its next statement
    visited,     \* the connections the range loop of broadcast has produced
    cur,         \* the loop variable client of broadcast
    nBroadcasts, \* number of broadcasts begun
    fatal        \* the runtime has ended the process

procVars == <<mainPc, proxyPc, plugins, closeLog, nSent>>
sessVars == <<pc, conns, clientBuf, clientEOF, serverBuf, serverEOF, toServer,
              toClient, event, cmdRaw, startTime, respRaw, trace>>
decVars  == <<dkind, unit, depth, dres>>
pmVars   == <<hPlugins, hPc, hFails, hCalls, hRet>>
sinkVars == <<config, list, pushed, trimFailed, call, nCalls>>
myVars   == <<currentDB, qpc, qevent, qstart, qlog, nQueries, prepared, predicate>>
webVars  == <<clients, clientsMu, wpc, visited, cur, nBroadcasts, fatal>>
vars     == <<procVars, meddling, peers, sessVars, decVars, pmVars, sinkVars, myVars,
              webVars>>

\* what the steps of the proxy, of the decoder harness, of the
\* PluginManager harness and of the RedisPlugin harness leave alone
ProxyStep ==
    UNCHANGED <<meddling, peers, decVars, pmVars, sinkVars, myVars, webVars>>
DecoderStep ==
    UNCHANGED <<procVars, meddling, peers, sessVars, pmVars, sinkVars, myVars, webVars>>
HarnessStep ==
    UNCHANGED <<procVars, meddling, peers, sessVars, decVars, sinkVars, myVars, webVars>>
SinkStep ==
    UNCHANGED <<procVars, meddling, peers, sessVars, decVars, pmVars, myVars, webVars>>
QueryStep ==
    UNCHANGED <<procVars, meddling, peers, sessVars, decVars, pmVars, sinkVars, webVars>>
WebStep ==
    UNCHANGED <<procVars, meddling, peers, sessVars, decVars, pmVars, sinkVars, myVars>>

(***************************************************************************)
(* Bytes and the library functions the decoder calls.                      *)
(***************************************************************************)
CR == "\r"
LF == "\n"
CRLF == <<CR, LF>>

Digits == <<"0", "1", "2", "3", "4", "5", "6", "7", "8", "9">>
Lower == <<"a", "b", "c", "d", "e", "f", "g", "h", "i", "j", "k", "l", "m",
           "n", "o", "p", "q", "r", "s", "t", "u", "v", "w", "x", "y", "z">>
Upper == <<"A", "B", "C", "D", "E", "F", "G", "H", "I", "J", "K", "L", "M",
           "N", "O", "P", "Q", "R", "S", "T", "U", "V", "W", "X", "Y", "Z">>

Range(s) == {s[i] : i \in 1..Len(s)}

IsDigit(c) == c \in Range(Digits)

DigitVal(c) == (CHOOSE i \in 1..Len(Digits) : Digits[i] = c) - 1

Drop(s, n) == SubSeq(s, n + 1, Len(s))

Take(s, n) == SubSeq(s, 1, n)

RECURSIVE Flatten(_)
Flatten(ss) == IF ss = <<>> THEN <<>> ELSE Head(ss) \o Flatten(Tail(ss))

IsPrefix(p, s) == Len(p) <= Len(s) /\ Take(s, Len(p)) = p

\* strings.HasPrefix
HasPrefix(s, p) == IsPrefix(p, s)

(* The 256 bytes, Bytes[b + 1] being the byte of value b.  A printable     *)
(* ASCII byte other than the backquote is written as itself, tab, LF, FF   *)
(* and CR by their escapes, and any other byte by its two hexadecimal      *)
(* digits.                                                                 *)
Bytes == <<
    "00", "01", "02", "03", "04", "05", "06", "07", "08", "\t", "\n", "0B", "\f", "\r",
    "0E", "0F", "10", "11", "12", "13", "14", "15", "16", "17", "18", "19", "1A", "1B",
    "1C", "1D", "1E", "1F", " ", "!", "\"", "#", "$", "%", "&", "'", "(", ")", "*",
    "+", ",", "-", ".", "/", "0", "1", "2", "3", "4", "5", "6", "7", "8", "9", ":",
    ";", "<", "=", ">", "?", "@", "A", "B", "C", "D", "E", "F", "G", "H", "I", "J",
    "K", "L", "M", "N", "O", "P", "Q", "R", "S", "T", "U", "V", "W", "X", "Y", "Z",
    "[", "\\", "]", "^", "_", "60", "a", "b", "c", "d", "e", "f", "g", "h", "i", "j",
    "k", "l", "m", "n", "o", "p", "q", "r", "s", "t", "u", "v", "w", "x", "y", "z",
    "{", "|", "}", "~", "7F", "80", "81", "82", "83", "84", "85", "86", "87", "88",
    "89", "8A", "8B", "8C", "8D", "8E", "8F", "90", "91", "92", "93", "94", "95", "96",
    "97", "98", "99", "9A", "9B", "9C", "9D", "9E", "9F", "A0", "A1", "A2", "A3", "A4",
    "A5", "A6", "A7", "A8", "A9", "AA", "AB", "AC", "AD", "AE", "AF", "B0", "B1", "B2",
    "B3", "B4", "B5", "B6", "B7", "B8", "B9", "BA", "BB", "BC", "BD", "BE", "BF", "C0",
    "C1", "C2", "C3", "C4", "C5", "C6", "C7", "C8", "C9", "CA", "CB", "CC", "CD", "CE",
    "CF", "D0", "D1", "D2", "D3", "D4", "D5", "D6", "D7", "D8", "D9", "DA", "DB", "DC",
    "DD", "DE", "DF", "E0", "E1", "E2", "E3", "E4", "E5", "E6", "E7", "E8", "E9", "EA",
    "EB", "EC", "ED", "EE", "EF", "F0", "F1", "F2", "F3", "F4", "F5", "F6", "F7", "F8",
    "F9", "FA", "FB", "FC", "FD", "FE", "FF">>

\* the vertical tab, byte 11
VT == "0B"

ByteVal(c) == CHOOSE i \in 0..255 : Bytes[i + 1] = c

\* the bytes of utf8.RuneSelf and above
HighBytes == {Bytes[i] : i \in 129..256}

\* the bytes strings.asciiSpace marks
AsciiSpace == {"\t", "\n", VT, "\f", "\r", " "}

\* utf8.DecodeRuneInString on a non-empty s: the rune s begins with and its
\* width; a byte that begins no well-formed encoding (a stray continuation
\* byte, a cut or overlong sequence, a surrogate, a value past U+10FFFF) is
\* utf8.RuneError, U+FFFD, of width 1. b holds the values of the first
\* utf8.UTFMax bytes
DecodeRune(s) ==
    CHOOSE d \in {
        LET Cont(i, lo, hi) == i <= Len(b) /\ b[i] >= lo /\ b[i] <= hi
            x(i) == b[i] - 128
            bad == [r |-> 65533, size |-> 1]
        IN  IF b[1] < 128 THEN [r |-> b[1], size |-> 1]
            ELSE IF b[1] >= 194 /\ b[1] <= 223
            THEN IF Cont(2, 128, 191)
                 THEN [r |-> (b[1] - 192) * 64 + x(2), size |-> 2]
                 ELSE bad
            ELSE IF b[1] >= 224 /\ b[1] <= 239
            THEN IF /\ Cont(2, IF b[1] = 224 THEN 160 ELSE 128, IF b[1] = 237 THEN 159 ELSE 191)
                    /\ Cont(3, 128, 191)
                 THEN [r |-> (b[1] - 224) * 4096 + x(2) * 64 + x(3), size |-> 3]
                 ELSE bad
            ELSE IF b[1] >= 240 /\ b[1] <= 244
            THEN IF /\ Cont(2, IF b[1] = 240 THEN 144 ELSE 128, IF b[1] = 244 THEN 143 ELSE 191)
                    /\ Cont(3, 128, 191)
                    /\ Cont(4, 128, 191)
                 THEN [r |-> (b[1] - 240) * 262144 + x(2) * 4096 + x(3) * 64 + x(4), size |-> 4]
                 ELSE bad
            ELSE bad
        : b \in {[i \in 1..(IF Len(s) < 4 THEN Len(s) ELSE 4) |-> ByteVal(s[i])]}} : TRUE

\* utf8.AppendRune for a rune that is no surrogate
EncodeRune(r) ==
    LET b == IF r < 128 THEN <<r>>
             ELSE IF r < 2048 THEN <<192 + (r \div 64), 128 + (r % 64)>>
             ELSE IF r < 65536
             THEN <<224 + (r \div 4096), 128 + ((r \div 64) % 64), 128 + (r % 64)>>
             ELSE <<240 + (r \div 262144), 128 + ((r \div 4096) % 64),
                    128 + ((r \div 64) % 64), 128 + (r % 64)>>
    IN  [i \in 1..Len(b) |-> Bytes[b[i] + 1]]

\* unicode.IsSpace: the Latin-1 spaces and the White_Space property beyond
IsSpace(r) ==
    IF r <= 255 THEN r \in {9, 10, 11, 12, 13, 32, 133, 160}
    ELSE \/ r = 5760
         \/ r >= 8192 /\ r <= 8202
         \/ r \in {8232, 8233, 8239, 8287, 12288}

\* the encodings of the runes unicode.IsSpace holds for, none longer than
\* three bytes. DecodeRuneInString and DecodeLastRuneInString find such a
\* rune at the start or the end of a string exactly when its encoding
\* stands there: the bytes after the first of an encoding begin no rune
Spaces == {EncodeRune(r) : r \in {r \in 0..12288 : IsSpace(r)}}

\* strings.TrimLeftFunc(s, unicode.IsSpace); at holds s and the width of
\* the space s begins with
RECURSIVE TrimLeftFunc(_)
TrimLeftFunc(s) ==
    CHOOSE t \in {IF at.w = {} THEN at.s
                  ELSE TrimLeftFunc(Drop(at.s, CHOOSE n \in at.w : TRUE))
                  : at \in {[s |-> s,
                             w |-> {n \in 1..3 : n <= Len(s) /\ Take(s, n) \in Spaces}]}} : TRUE

\* strings.TrimRightFunc(s, unicode.IsSpace); at holds s and the width of
\* the space s ends with
RECURSIVE TrimRightFunc(_)
TrimRightFunc(s) ==
    CHOOSE t \in {IF at.w = {} THEN at.s
                  ELSE TrimRightFunc(Take(at.s, Len(at.s) - (CHOOSE n \in at.w : TRUE)))
                  : at \in {[s |-> s,
                             w |-> {n \in 1..3 : n <= Len(s) /\ Drop(s, Len(s) - n) \in Spaces}]}} : TRUE

\* strings.TrimSpace: strings.TrimFunc(s, unicode.IsSpace); the loops that
\* cut the ASCII spaces byte by byte first, up to a byte of RuneSelf or
\* above, cut what TrimFunc cuts
TrimSpace(s) == TrimRightFunc(TrimLeftFunc(s))

\* the width of the runes up to the first space of s
RECURSIVE FieldWidth(_)
FieldWidth(s) ==
    IF s = <<>> THEN 0
    ELSE CHOOSE n \in {IF IsSpace(at.d.r) THEN 0
                       ELSE at.d.size + FieldWidth(Drop(at.s, at.d.size))
                       : at \in {[s |-> s, d |-> DecodeRune(s)]}} : TRUE

\* strings.FieldsFunc(s, unicode.IsSpace): the maximal runs of runes that
\* are no spaces, in order
RECURSIVE FieldsFunc(_)
FieldsFunc(s) ==
    IF s = <<>> THEN <<>>
    ELSE CHOOSE f \in {IF at.n = 0 THEN FieldsFunc(Drop(at.s, at.d.size))
                       ELSE <<Take(at.s, at.n)>> \o FieldsFunc(Drop(at.s, at.n))
                       : at \in {[s |-> s, d |-> DecodeRune(s), n |-> FieldWidth(s)]}} : TRUE

\* the ASCII path of strings.Fields: the maximal runs of bytes that are no
\* ASCII spaces, in order
RECURSIVE FieldsASCII(_)
FieldsASCII(s) ==
    IF s = <<>> THEN <<>>
    ELSE IF s[1] \in AsciiSpace THEN FieldsASCII(Tail(s))
    ELSE LET stops == {i \in 1..Len(s) : s[i] \in AsciiSpace}
             n == IF stops = {} THEN Len(s)
                  ELSE (CHOOSE i \in stops : \A j \in stops : i <= j) - 1
         IN  <<Take(s, n)>> \o FieldsASCII(Drop(s, n))

\* strings.Fields: a string with a byte of RuneSelf or above is split rune
\* by rune
Fields(s) ==
    IF \E i \in 1..Len(s) : s[i] \in HighBytes THEN FieldsFunc(s) ELSE FieldsASCII(s)

\* unicode.CaseRanges, the upper-case column for the runes past ASCII, as
\* <<lo, hi, stride, delta>>: a rune lo + k * stride up to hi has the upper
\* case rune + delta (the simple case mappings of Unicode 15)
CaseRanges == <<
    <<181, 181, 1, 743>>, <<224, 246, 1, -32>>, <<248, 254, 1, -32>>,
    <<255, 255, 1, 121>>, <<257, 303, 2, -1>>, <<305, 305, 1, -232>>,
    <<307, 311, 2, -1>>, <<314, 328, 2, -1>>, <<331, 375, 2, -1>>, <<378, 382, 2, -1>>,
    <<383, 383, 1, -300>>, <<384, 384, 1, 195>>, <<387, 389, 2, -1>>,
    <<392, 392, 1, -1>>, <<396, 396, 1, -1>>, <<402, 402, 1, -1>>, <<405, 405, 1, 97>>,
    <<409, 409, 1, -1>>, <<410, 410, 1, 163>>, <<414, 414, 1, 130>>,
    <<417, 421, 2, -1>>, <<424, 424, 1, -1>>, <<429, 429, 1, -1>>, <<432, 432, 1, -1>>,
    <<436, 438, 2, -1>>, <<441, 441, 1, -1>>, <<445, 445, 1, -1>>, <<447, 447, 1, 56>>,
    <<453, 453, 1, -1>>, <<454, 454, 1, -2>>, <<456, 456, 1, -1>>, <<457, 457, 1, -2>>,
    <<459, 459, 1, -1>>, <<460, 460, 1, -2>>, <<462, 476, 2, -1>>,
    <<477, 477, 1, -79>>, <<479, 495, 2, -1>>, <<498, 498, 1, -1>>,
    <<499, 499, 1, -2>>, <<501, 501, 1, -1>>, <<505, 543, 2, -1>>, <<547, 563, 2, -1>>,
    <<572, 572, 1, -1>>, <<575, 576, 1, 10815>>, <<578, 578, 1, -1>>,
    <<583, 591, 2, -1>>, <<592, 592, 1, 10783>>, <<593, 593, 1, 10780>>,
    <<594, 594, 1, 10782>>, <<595, 595, 1, -210>>, <<596, 596, 1, -206>>,
    <<598, 599, 1, -205>>, <<601, 601, 1, -202>>, <<603, 603, 1, -203>>,
    <<604, 604, 1, 42319>>, <<608, 608, 1, -205>>, <<609, 609, 1, 42315>>,
    <<611, 611, 1, -207>>, <<613, 613, 1, 42280>>, <<614, 614, 1, 42308>>,
    <<616, 616, 1, -209>>, <<617, 617, 1, -211>>, <<618, 618, 1, 42308>>,
    <<619, 619, 1, 10743>>, <<620, 620, 1, 42305>>, <<623, 623, 1, -211>>,
    <<625, 625, 1, 10749>>, <<626, 626, 1, -213>>, <<629, 629, 1, -214>>,
    <<637, 637, 1, 10727>>, <<640, 640, 1, -218>>, <<642, 642, 1, 42307>>,
    <<643, 643, 1, -218>>, <<647, 647, 1, 42282>>, <<648, 648, 1, -218>>,
    <<649, 649, 1, -69>>, <<650, 651, 1, -217>>, <<652, 652, 1, -71>>,
    <<658, 658, 1, -219>>, <<669, 669, 1, 42261>>, <<670, 670, 1, 42258>>,
    <<837, 837, 1, 84>>, <<881, 883, 2, -1>>, <<887, 887, 1, -1>>,
    <<891, 893, 1, 130>>, <<940, 940, 1, -38>>, <<941, 943, 1, -37>>,
    <<945, 961, 1, -32>>, <<962, 962, 1, -31>>, <<963, 971, 1, -32>>,
    <<972, 972, 1, -64>>, <<973, 974, 1, -63>>, <<976, 976, 1, -62>>,
    <<977, 977, 1, -57>>, <<981, 981, 1, -47>>, <<982, 982, 1, -54>>,
    <<983, 983, 1, -8>>, <<985, 1007, 2, -1>>, <<1008, 1008, 1, -86>>,
    <<1009, 1009, 1, -80>>, <<1010, 1010, 1, 7>>, <<1011, 1011, 1, -116>>,
    <<1013, 1013, 1, -96>>, <<1016, 1016, 1, -1>>, <<1019, 1019, 1, -1>>,
    <<1072, 1103, 1, -32>>, <<1104, 1119, 1, -80>>, <<1121, 1153, 2, -1>>,
    <<1163, 1215, 2, -1>>, <<1218, 1230, 2, -1>>, <<1231, 1231, 1, -15>>,
    <<1233, 1327, 2, -1>>, <<1377, 1414, 1, -48>>, <<4304, 4346, 1, 3008>>,
    <<4349, 4351, 1, 3008>>, <<5112, 5117, 1, -8>>, <<7296, 7296, 1, -6254>>,
    <<7297, 7297, 1, -6253>>, <<7298, 7298, 1, -6244>>, <<7299, 7300, 1, -6242>>,
    <<7301, 7301, 1, -6243>>, <<7302, 7302, 1, -6236>>, <<7303, 7303, 1, -6181>>,
    <<7304, 7304, 1, 35266>>, <<7545, 7545, 1, 35332>>, <<7549, 7549, 1, 3814>>,
    <<7566, 7566, 1, 35384>>, <<7681, 7829, 2, -1>>, <<7835, 7835, 1, -59>>,
    <<7841, 7935, 2, -1>>, <<7936, 7943, 1, 8>>, <<7952, 7957, 1, 8>>,
    <<7968, 7975, 1, 8>>, <<7984, 7991, 1, 8>>, <<8000, 8005, 1, 8>>,
    <<8017, 8023, 2, 8>>, <<8032, 8039, 1, 8>>, <<8048, 8049, 1, 74>>,
    <<8050, 8053, 1, 86>>, <<8054, 8055, 1, 100>>, <<8056, 8057, 1, 128>>,
    <<8058, 8059, 1, 112>>, <<8060, 8061, 1, 126>>, <<8064, 8071, 1, 8>>,
    <<8080, 8087, 1, 8>>, <<8096, 8103, 1, 8>>, <<8112, 8113, 1, 8>>,
    <<8115, 8115, 1, 9>>, <<8126, 8126, 1, -7205>>, <<8131, 8131, 1, 9>>,
    <<8144, 8145, 1, 8>>, <<8160, 8161, 1, 8>>, <<8165, 8165, 1, 7>>,
    <<8179, 8179, 1, 9>>, <<8526, 8526, 1, -28>>, <<8560, 8575, 1, -16>>,
    <<8580, 8580, 1, -1>>, <<9424, 9449, 1, -26>>, <<11312, 11359, 1, -48>>,
    <<11361, 11361, 1, -1>>, <<11365, 11365, 1, -10795>>, <<11366, 11366, 1, -10792>>,
    <<11368, 11372, 2, -1>>, <<11379, 11379, 1, -1>>, <<11382, 11382, 1, -1>>,
    <<11393, 11491, 2, -1>>, <<11500, 11502, 2, -1>>, <<11507, 11507, 1, -1>>,
    <<11520, 11557, 1, -7264>>, <<11559, 11559, 1, -7264>>, <<11565, 11565, 1, -7264>>,
    <<42561, 42605, 2, -1>>, <<42625, 42651, 2, -1>>, <<42787, 42799, 2, -1>>,
    <<42803, 42863, 2, -1>>, <<42874, 42876, 2, -1>>, <<42879, 42887, 2, -1>>,
    <<42892, 42892, 1, -1>>, <<42897, 42899, 2, -1>>, <<42900, 42900, 1, 48>>,
    <<42903, 42921, 2, -1>>, <<42933, 42947, 2, -1>>, <<42952, 42954, 2, -1>>,
    <<42961, 42961, 1, -1>>, <<42967, 42969, 2, -1>>, <<42998, 42998, 1, -1>>,
    <<43859, 43859, 1, -928>>, <<43888, 43967, 1, -38864>>, <<65345, 65370, 1, -32>>,
    <<66600, 66639, 1, -40>>, <<66776, 66811, 1, -40>>, <<66967, 67003, 2, -39>>,
    <<66968, 66977, 1, -39>>, <<66980, 66993, 1, -39>>, <<66996, 67001, 1, -39>>,
    <<67004, 67004, 1, -39>>, <<68800, 68850, 1, -64>>, <<71872, 71903, 1, -32>>,
    <<93792, 93823, 1, -32>>, <<125218, 125251, 1, -34>>>>

\* unicode.ToUpper
ToUpperRune(r) ==
    IF r < 128
    THEN IF r >= 97 /\ r <= 122 THEN r - 32 ELSE r
    ELSE CHOOSE u \in {IF hit = {} THEN r ELSE r + (CHOOSE t \in hit : TRUE)[4]
                       : hit \in {{t \in Range(CaseRanges) :
                                      /\ t[1] <= r
                                      /\ r <= t[2]
                                      /\ (r - t[1]) % t[3] = 0}}} : TRUE

\* strings.Map(unicode.ToUpper, s): every rune of s mapped and encoded
\* again, an ill-formed byte coming out as the three bytes of U+FFFD
RECURSIVE Map(_)
Map(s) ==
    IF s = <<>> THEN <<>>
    ELSE CHOOSE t \in {EncodeRune(ToUpperRune(at.d.r)) \o Map(Drop(at.s, at.d.size))
                       : at \in {[s |-> s, d |-> DecodeRune(s)]}} : TRUE

\* strings.ToUpper: an ASCII string has its letters a..z replaced byte by
\* byte; any other string is mapped rune by rune
ToUpper(s) ==
    IF \E i \in 1..Len(s) : s[i] \in HighBytes THEN Map(s)
    ELSE [i \in 1..Len(s) |->
            IF s[i] \in Range(Lower)
            THEN Upper[CHOOSE k \in 1..Len(Lower) : Lower[k] = s[i]]
            ELSE s[i]]

RECURSIVE DecVal(_)
DecVal(s) == IF s = <<>> THEN 0
             ELSE 10 * DecVal(Take(s, Len(s) - 1)) + DigitVal(s[Len(s)])

\* the %d of fmt.Sprintf
RECURSIVE Itoa(_)
Itoa(n) == IF n < 0 THEN <<"-">> \o Itoa(0 - n)
           ELSE IF n < 10 THEN <<Digits[n + 1]>>
           ELSE Itoa(n \div 10) \o <<Digits[(n % 10) + 1]>>

\* a digit string without its leading zeros
RECURSIVE Significant(_)
Significant(ds) == IF Len(ds) > 1 /\ ds[1] = "0" THEN Significant(Tail(ds)) ELSE ds

\* a < b, for numbers written as digit strings without leading zeros
DigitsLess(a, b) ==
    \/ Len(a) < Len(b)
    \/ /\ Len(a) = Len(b)
       /\ \E i \in 1..Len(a) : /\ Take(a, i - 1) = Take(b, i - 1)
                                /\ DigitVal(a[i]) < DigitVal(b[i])

\* int is 64 bits wide: 2^63 - 1, the magnitude of -2^63, and 2^62
MaxIntDigits == <<"9", "2", "2", "3", "3", "7", "2", "0", "3", "6", "8", "5", "4", "7",
                  "7", "5", "8", "0", "7">>
MinIntDigits == <<"9", "2", "2", "3", "3", "7", "2", "0", "3", "6", "8", "5", "4", "7",
                  "7", "5", "8", "0", "8">>
HalfIntDigits == <<"4", "6", "1", "1", "6", "8", "6", "0", "1", "8", "4", "2", "7", "3",
                   "8", "7", "9", "0", "4">>

\* numbers of up to NarrowDigits digits are computed with; a wider one is
\* carried as its digits (wide is "pos" or "neg") and val is then
\* WideVal, which has its sign
NarrowDigits == 9
WideVal(neg) == IF neg THEN 0 - 1000000000 ELSE 1000000000

\* 2^64 - 1, the greatest value of the uint64 the digits are added up in
MaxUintDigits == <<"1", "8", "4", "4", "6", "7", "4", "4", "0", "7", "3", "7", "0", "9",
                   "5", "5", "1", "6", "1", "5">>

\* the digits a string begins with
RECURSIVE DigitRun(_)
DigitRun(s) == IF s = <<>> \/ ~IsDigit(s[1]) THEN <<>>
               ELSE <<s[1]>> \o DigitRun(Tail(s))

\* strconv.Atoi: an optional sign and then decimal digits only, the value
\* within the range of int.  The bytes are taken from the left: digits that
\* add up to more than 2^64 - 1 are a range error whatever follows them, and
\* a byte that is no digit is a syntax error when it is met before that.
Atoi(s) ==
    LET signed == s # <<>> /\ s[1] \in {"+", "-"}
        neg == signed /\ s[1] = "-"
        body == IF signed THEN Tail(s) ELSE s
        sig == Significant(DigitRun(body))
    IN  IF Len(body) >= Len(MaxUintDigits) /\ DigitsLess(MaxUintDigits, sig)
        THEN [val |-> 0, err |-> "value out of range", wide |-> "", digits |-> <<>>]
        ELSE IF body = <<>> \/ \E i \in 1..Len(body) : ~IsDigit(body[i])
        THEN [val |-> 0, err |-> "invalid syntax", wide |-> "", digits |-> <<>>]
        ELSE IF Len(sig) <= NarrowDigits
        THEN [val |-> IF neg THEN 0 - DecVal(sig) ELSE DecVal(sig), err |-> "",
              wide |-> "", digits |-> sig]
        ELSE IF DigitsLess(IF neg THEN MinIntDigits ELSE MaxIntDigits, sig)
        THEN [val |-> 0, err |-> "value out of range", wide |-> "", digits |-> <<>>]
        ELSE [val |-> WideVal(neg), err |-> "",
              wide |-> IF neg THEN "neg" ELSE "pos", digits |-> sig]

\* the %d of fmt.Sprintf, of a number Atoi returned
FormatInt(a) ==
    IF a.wide = "" THEN Itoa(a.val)
    ELSE (IF a.wide = "neg" THEN <<"-">> ELSE <<>>) \o a.digits

\* the greatest length make([]byte, length+2) takes and the greatest count
\* make([]string, 0, count) takes, a string header being 16 bytes: the
\* runtime allocates no more than 2^48 bytes (64-bit Linux), so these are
\* 2^48 - 2 and 2^44
MostBytes == <<"2", "8", "1", "4", "7", "4", "9", "7", "6", "7", "1", "0", "6", "5", "4">>
MostStrings == <<"1", "7", "5", "9", "2", "1", "8", "6", "0", "4", "4", "4", "1", "6">>

\* the memory of the machine a run is on, as the greatest length and the
\* greatest count that are allocated on it.  No machine has more than the
\* address space of a process, 2^47 bytes (lengths to 2^47 - 2, counts to
\* 2^43); a machine short of memory has less, here 2^29 bytes.
AddressSpace == [bytes |-> <<"1", "4", "0", "7", "3", "7", "4", "8", "8", "3", "5", "5",
                             "3", "2", "6">>,
                 strings |-> <<"8", "7", "9", "6", "0", "9", "3", "0", "2", "2", "2", "0",
                               "8">>]
ShortOfMemory == [bytes |-> <<"5", "3", "6", "8", "7", "0", "9", "1", "0">>,
                  strings |-> <<"3", "3", "5", "5", "4", "4", "3", "2">>]

\* the errors of the runtime that end the process: a panic nothing
\* recovers, and the fatal error of an allocation the machine cannot make
Fatal == {"panic", "out of memory"}

\* make with the size Atoi returned, on a machine with room for sizes up to
\* room: it panics when the size is beyond what the runtime allocates or is
\* negative after length+2 wrapped, and the runtime ends the process with
\* "fatal error: out of memory" when the machine has no room for it; else
\* ("") the slice is allocated, however short the stream is
MakeFails(a, most, room) ==
    IF a.wide = "pos" /\ DigitsLess(most, a.digits) THEN "panic"
    ELSE IF DigitsLess(room, a.digits) THEN "out of memory"
    ELSE ""

\* a bug: the loop stops one pass early
Passes_skipsLast(a, buf) == IF a.wide = "pos" THEN Len(buf) + 1 ELSE a.val - 1

\* how often a loop "for i := 0; i < count; i++" that reads one unit per
\* pass runs on the stream buf: a wide count outlasts the stream, every
\* unit taking at least one byte
Passes(a, buf) == IF a.wide = "pos" THEN Len(buf) + 1 ELSE a.val

\* a - b - borrow, for digit strings of one length with a >= b
RECURSIVE SubDigits(_, _, _)
SubDigits(a, b, borrow) ==
    IF a = <<>> THEN <<>>
    ELSE LET x == DigitVal(a[Len(a)]) - DigitVal(b[Len(b)]) - borrow
         IN  SubDigits(Take(a, Len(a) - 1), Take(b, Len(b) - 1), IF x < 0 THEN 1 ELSE 0)
                \o <<Digits[(IF x < 0 THEN x + 10 ELSE x) + 1]>>

\* a bug: one pass for each pair
PassesTwice_once(a, buf) == Passes(a, buf)

\* the same for "i < count*2", the product wrapping at 64 bits: a count of
\* 2^62 or more gives a negative product, and a count -m below -2^62 the
\* product 2 * (2^63 - m)
PassesTwice(a, buf) ==
    CASE a.wide = "" -> a.val * 2
      [] a.wide = "pos" -> IF DigitsLess(a.digits, HalfIntDigits) THEN Len(buf) + 1 ELSE 0
      [] a.wide = "neg" ->
            IF ~DigitsLess(HalfIntDigits, a.digits) THEN 0
            ELSE LET d == Significant(SubDigits(MinIntDigits, a.digits, 0))
                 IN  IF Len(d) <= NarrowDigits THEN 2 * DecVal(d) ELSE Len(buf) + 1

\* bufio.Reader.ReadString('\n') on a stream that ends after buf: the bytes
\* through the first LF, or everything and io.EOF when there is no LF.
ReadString(buf) ==
    LET at == {i \in 1..Len(buf) : buf[i] = LF}
    IN  IF at = {} THEN [line |-> buf, rest |-> <<>>, err |-> "EOF"]
        ELSE LET n == CHOOSE i \in at : \A j \in at : i <= j
             IN  [line |-> Take(buf, n), rest |-> Drop(buf, n), err |-> ""]

\* io.ReadFull(reader, make([]byte, n)) on a stream that ends after buf
ReadFull(buf, n) ==
    IF Len(buf) >= n THEN [data |-> Take(buf, n), rest |-> Drop(buf, n), err |-> ""]
    ELSE [data |-> buf, rest |-> <<>>,
          err |-> IF buf = <<>> THEN "EOF" ELSE "unexpected EOF"]

(***************************************************************************)
(* The command decoder.  Every result carries rest, the stream after the   *)
(* bytes the call consumed (the position the bufio.Reader is left at).     *)
(***************************************************************************)
CmdResult(command, args, raw, err, rest) ==
    [command |-> command, args |-> args, raw |-> raw, err |-> err, rest |-> rest]

\* a bug: the payload is read but not added to raw
readBulkString_dropsPayload(buf) ==
    LET l == ReadString(buf)
        line == l.line
    IN  IF l.err # "" THEN [value |-> <<>>, raw |-> <<>>, err |-> l.err, rest |-> l.rest]
        ELSE IF Len(line) < 3 \/ line[1] # "$"
        THEN [value |-> <<>>, raw |-> line, err |-> "expected bulk string", rest |-> l.rest]
        ELSE LET a == Atoi(TrimSpace(Tail(line)))
             IN  IF a.err # ""
                 THEN [value |-> <<>>, raw |-> line,
                       err |-> "invalid bulk string length", rest |-> l.rest]
                 ELSE IF a.val < 0
                 THEN [value |-> <<>>, raw |-> line, err |-> "", rest |-> l.rest]
                 ELSE IF MakeFails(a, MostBytes, peers.memory.bytes) # ""
                 THEN [value |-> <<>>, raw |-> line, rest |-> l.rest,
                       err |-> MakeFails(a, MostBytes, peers.memory.bytes)]
                 ELSE LET d == ReadFull(l.rest, a.val + 2)
                      IN  IF d.err # ""
                          THEN [value |-> <<>>, raw |-> line, err |-> d.err, rest |-> d.rest]
                          ELSE [value |-> Take(d.data, a.val), raw |-> line,
                                err |-> "", rest |-> d.rest]

\* a bug: a null element is read like an empty one, two bytes after its line
readBulkString_nullHasPayload(buf) ==
    LET l == ReadString(buf)
        line == l.line
    IN  IF l.err # "" THEN [value |-> <<>>, raw |-> <<>>, err |-> l.err, rest |-> l.rest]
        ELSE IF Len(line) < 3 \/ line[1] # "$"
        THEN [value |-> <<>>, raw |-> line, err |-> "expected bulk string", rest |-> l.rest]
        ELSE LET a == Atoi(TrimSpace(Tail(line)))
             IN  IF a.err # ""
                 THEN [value |-> <<>>, raw |-> line,
                       err |-> "invalid bulk string length", rest |-> l.rest]
                 ELSE IF MakeFails(a, MostBytes, peers.memory.bytes) # ""
                 THEN [value |-> <<>>, raw |-> line, rest |-> l.rest,
                       err |-> MakeFails(a, MostBytes, peers.memory.bytes)]
                 ELSE LET n == IF a.val < 0 THEN 0 ELSE a.val
                          d == ReadFull(l.rest, n + 2)
                      IN  IF d.err # ""
                          THEN [value |-> <<>>, raw |-> line, err |-> d.err, rest |-> d.rest]
                          ELSE [value |-> Take(d.data, n), raw |-> line \o d.data,
                                err |-> "", rest |-> d.rest]

readBulkString(buf) ==
    LET l == ReadString(buf)
        line == l.line
    IN  IF l.err # "" THEN [value |-> <<>>, raw |-> <<>>, err |-> l.err, rest |-> l.rest]
        ELSE IF Len(line) < 3 \/ line[1] # "$"
        THEN [value |-> <<>>, raw |-> line, err |-> "expected bulk string", rest |-> l.rest]
        ELSE LET a == Atoi(TrimSpace(Tail(line)))
             IN  IF a.err # ""
                 THEN [value |-> <<>>, raw |-> line,
                       err |-> "invalid bulk string length", rest |-> l.rest]
                 ELSE IF a.val < 0
                 THEN [value |-> <<>>, raw |-> line, err |-> "", rest |-> l.rest]
                 ELSE IF MakeFails(a, MostBytes, peers.memory.bytes) # ""
                 THEN [value |-> <<>>, raw |-> line, rest |-> l.rest,
                       err |-> MakeFails(a, MostBytes, peers.memory.bytes)]
                 ELSE LET d == ReadFull(l.rest, a.val + 2)
                      IN  IF d.err # ""
                          THEN [value |-> <<>>, raw |-> line, err |-> d.err, rest |-> d.rest]
                          ELSE [value |-> Take(d.data, a.val), raw |-> line \o d.data,
                                err |-> "", rest |-> d.rest]

\* the loop of readRESPCommand: left bulk strings still to read
RECURSIVE readParts(_, _, _, _)
readParts(buf, raw, parts, left) ==
    IF left = 0 THEN [parts |-> parts, raw |-> raw, err |-> "", rest |-> buf]
    ELSE LET b == readBulkString(buf)
         IN  IF b.err # "" THEN [parts |-> parts, raw |-> raw, err |-> b.err, rest |-> b.rest]
             ELSE readParts(b.rest, raw \o b.raw, Append(parts, b.value), left - 1)

readRESPCommand(buf) ==
    LET l == ReadString(buf)
        line == l.line
    IN  IF l.err # "" THEN CmdResult(<<>>, <<>>, <<>>, l.err, l.rest)
        ELSE IF Len(line) < 3 \/ line[1] # "*"
        THEN CmdResult(<<>>, <<>>, line, "invalid RESP array", l.rest)
        ELSE LET a == Atoi(TrimSpace(Tail(line)))
             IN  IF a.err # "" THEN CmdResult(<<>>, <<>>, line, "invalid array count", l.rest)
                 ELSE IF a.val <= 0 THEN CmdResult(<<>>, <<>>, line, "empty command", l.rest)
                 ELSE IF MakeFails(a, MostStrings, peers.memory.strings) # ""
                 THEN CmdResult(<<>>, <<>>, line,
                                MakeFails(a, MostStrings, peers.memory.strings), l.rest)
                 ELSE LET p == readParts(l.rest, line, <<>>, Passes(a, l.rest))
                      IN  IF p.err # "" THEN CmdResult(<<>>, <<>>, p.raw, p.err, p.rest)
                          ELSE CmdResult(ToUpper(Head(p.parts)), Tail(p.parts),
                                         p.raw, "", p.rest)

readInlineCommand(buf) ==
    LET l == ReadString(buf)
        trimmed == TrimSpace(l.line)
        parts == Fields(trimmed)
    IN  IF l.err # "" THEN CmdResult(<<>>, <<>>, <<>>, l.err, l.rest)
        ELSE IF trimmed = <<>> THEN CmdResult(<<>>, <<>>, l.line, "empty command", l.rest)
        ELSE CmdResult(ToUpper(Head(parts)), Tail(parts), l.line, "", l.rest)

\* reader.Peek(1) fails with io.EOF on a stream that ended
readCommand(buf) ==
    IF buf = <<>> THEN CmdResult(<<>>, <<>>, <<>>, "EOF", <<>>)
    ELSE IF buf[1] = "*" THEN readRESPCommand(buf)
    ELSE readInlineCommand(buf)

(***************************************************************************)
(* The response decoder.  raw is the parameter raw of the Go functions:    *)
(* the bytes of the unit read so far (the tag byte on entry).              *)
(***************************************************************************)
SummaryMax == 50
Ellipsis == <<".", ".", ".">>
VerbatimTag == 4

NilSummary == <<"(", "n", "i", "l", ")">>

RespResult(summary, raw, err, rest) ==
    [summary |-> summary, raw |-> raw, err |-> err, rest |-> rest]

readSimpleString(buf, raw) ==
    LET l == ReadString(buf)
    IN  IF l.err # "" THEN RespResult(<<>>, raw, l.err, l.rest)
        ELSE RespResult(TrimSpace(l.line), raw \o l.line, "", l.rest)

\* a bug: the null tag is summarized like a status line, by its (empty) text
readNull_asLine(buf, raw) == readSimpleString(buf, raw)

readNull(buf, raw) ==
    LET l == ReadString(buf)
    IN  IF l.err # "" THEN RespResult(<<>>, raw, l.err, l.rest)
        ELSE RespResult(NilSummary, raw \o l.line, "", l.rest)

readBoolean(buf, raw) ==
    LET l == ReadString(buf)
    IN  IF l.err # "" THEN RespResult(<<>>, raw, l.err, l.rest)
        ELSE IF TrimSpace(l.line) = <<"t">>
        THEN RespResult(<<"t", "r", "u", "e">>, raw \o l.line, "", l.rest)
        ELSE RespResult(<<"f", "a", "l", "s", "e">>, raw \o l.line, "", l.rest)

\* a bug: a payload of exactly SummaryMax bytes is cut too
readBulkStringResponse_cutsAtMax(buf, raw) ==
    LET l == ReadString(buf)
        a == Atoi(TrimSpace(l.line))
    IN  IF l.err # "" THEN RespResult(<<>>, raw, l.err, l.rest)
        ELSE IF a.err # "" THEN RespResult(<<>>, raw \o l.line, a.err, l.rest)
        ELSE IF a.val < 0 THEN RespResult(NilSummary, raw \o l.line, "", l.rest)
        ELSE IF MakeFails(a, MostBytes, peers.memory.bytes) # ""
        THEN RespResult(<<>>, raw \o l.line, MakeFails(a, MostBytes, peers.memory.bytes),
                        l.rest)
        ELSE LET d == ReadFull(l.rest, a.val + 2)
             IN  IF d.err # "" THEN RespResult(<<>>, raw \o l.line, d.err, d.rest)
                 ELSE RespResult(IF a.val >= SummaryMax
                                 THEN Take(d.data, SummaryMax) \o Ellipsis
                                 ELSE Take(d.data, a.val),
                                 raw \o l.line \o d.data, "", d.rest)

readBulkStringResponse(buf, raw) ==
    LET l == ReadString(buf)
        a == Atoi(TrimSpace(l.line))
    IN  IF l.err # "" THEN RespResult(<<>>, raw, l.err, l.rest)
        ELSE IF a.err # "" THEN RespResult(<<>>, raw \o l.line, a.err, l.rest)
        ELSE IF a.val < 0 THEN RespResult(NilSummary, raw \o l.line, "", l.rest)
        ELSE IF MakeFails(a, MostBytes, peers.memory.bytes) # ""
        THEN RespResult(<<>>, raw \o l.line, MakeFails(a, MostBytes, peers.memory.bytes),
                        l.rest)
        ELSE LET d == ReadFull(l.rest, a.val + 2)
             IN  IF d.err # "" THEN RespResult(<<>>, raw \o l.line, d.err, d.rest)
                 ELSE RespResult(IF a.val > SummaryMax
                                 THEN Take(d.data, SummaryMax) \o Ellipsis
                                 ELSE Take(d.data, a.val),
                                 raw \o l.line \o d.data, "", d.rest)

readVerbatimString(buf, raw) ==
    LET l == ReadString(buf)
        a == Atoi(TrimSpace(l.line))
    IN  IF l.err # "" THEN RespResult(<<>>, raw, l.err, l.rest)
        ELSE IF a.err # "" THEN RespResult(<<>>, raw \o l.line, a.err, l.rest)
        ELSE IF a.val < 0 THEN RespResult(NilSummary, raw \o l.line, "", l.rest)
        ELSE IF MakeFails(a, MostBytes, peers.memory.bytes) # ""
        THEN RespResult(<<>>, raw \o l.line, MakeFails(a, MostBytes, peers.memory.bytes),
                        l.rest)
        ELSE LET d == ReadFull(l.rest, a.val + 2)
                 whole == Take(d.data, a.val)
                 content == IF Len(whole) > VerbatimTag THEN Drop(whole, VerbatimTag)
                            ELSE whole
             IN  IF d.err # "" THEN RespResult(<<>>, raw \o l.line, d.err, d.rest)
                 ELSE RespResult(IF Len(content) > SummaryMax
                                 THEN Take(content, SummaryMax) \o Ellipsis
                                 ELSE content,
                                 raw \o l.line \o d.data, "", d.rest)

RECURSIVE readResponse(_)
RECURSIVE readElems(_, _, _)

\* a bug: a nested unit that fails is passed over
readElems_goesOn(buf, raw, left) ==
    IF left <= 0 THEN [raw |-> raw, err |-> "", rest |-> buf]
    ELSE LET e == readResponse(buf)
         IN  readElems(e.rest, raw \o e.raw, left - 1)

\* the element loops of the aggregate readers: left units still to read
readElems(buf, raw, left) ==
    IF left <= 0 THEN [raw |-> raw, err |-> "", rest |-> buf]
    ELSE LET e == readResponse(buf)
         IN  IF e.err # "" THEN [raw |-> raw, err |-> e.err, rest |-> e.rest]
             ELSE readElems(e.rest, raw \o e.raw, left - 1)

\* a bug: the nested units are read but their bytes are not added to raw
readArrayResponse_dropsElems(buf, raw) ==
    LET l == ReadString(buf)
        a == Atoi(TrimSpace(l.line))
    IN  IF l.err # "" THEN RespResult(<<>>, raw, l.err, l.rest)
        ELSE IF a.err # "" THEN RespResult(<<>>, raw \o l.line, a.err, l.rest)
        ELSE IF a.val < 0 THEN RespResult(NilSummary, raw \o l.line, "", l.rest)
        ELSE IF a.val = 0
        THEN RespResult(<<"(", "e", "m", "p", "t", "y", " ", "a", "r", "r", "a", "y", ")">>,
                        raw \o l.line, "", l.rest)
        ELSE LET e == readElems(l.rest, raw \o l.line, Passes(a, l.rest))
             IN  IF e.err # "" THEN RespResult(<<>>, e.raw, e.err, e.rest)
                 ELSE RespResult(<<"(">> \o FormatInt(a)
                                    \o <<" ", "e", "l", "e", "m", "e", "n", "t", "s", ")">>,
                                 raw \o l.line, "", e.rest)

readArrayResponse(buf, raw) ==
    LET l == ReadString(buf)
        a == Atoi(TrimSpace(l.line))
    IN  IF l.err # "" THEN RespResult(<<>>, raw, l.err, l.rest)
        ELSE IF a.err # "" THEN RespResult(<<>>, raw \o l.line, a.err, l.rest)
        ELSE IF a.val < 0 THEN RespResult(NilSummary, raw \o l.line, "", l.rest)
        ELSE IF a.val = 0
        THEN RespResult(<<"(", "e", "m", "p", "t", "y", " ", "a", "r", "r", "a", "y", ")">>,
                        raw \o l.line, "", l.rest)
        ELSE LET e == readElems(l.rest, raw \o l.line, Passes(a, l.rest))
             IN  IF e.err # "" THEN RespResult(<<>>, e.raw, e.err, e.rest)
                 ELSE RespResult(<<"(">> \o FormatInt(a)
                                    \o <<" ", "e", "l", "e", "m", "e", "n", "t", "s", ")">>,
                                 e.raw, "", e.rest)

readMapResponse(buf, raw) ==
    LET l == ReadString(buf)
        a == Atoi(TrimSpace(l.line))
    IN  IF l.err # "" THEN RespResult(<<>>, raw, l.err, l.rest)
        ELSE IF a.err # "" THEN RespResult(<<>>, raw \o l.line, a.err, l.rest)
        ELSE IF a.val < 0 THEN RespResult(NilSummary, raw \o l.line, "", l.rest)
        ELSE IF a.val = 0
        THEN RespResult(<<"(", "e", "m", "p", "t", "y", " ", "m", "a", "p", ")">>,
                        raw \o l.line, "", l.rest)
        ELSE LET e == readElems(l.rest, raw \o l.line, PassesTwice(a, l.rest))
             IN  IF e.err # "" THEN RespResult(<<>>, e.raw, e.err, e.rest)
                 ELSE RespResult(<<"(">> \o FormatInt(a)
                                    \o <<" ", "e", "n", "t", "r", "i", "e", "s", ")">>,
                                 e.raw, "", e.rest)

readSetResponse(buf, raw) ==
    LET l == ReadString(buf)
        a == Atoi(TrimSpace(l.line))
    IN  IF l.err # "" THEN RespResult(<<>>, raw, l.err, l.rest)
        ELSE IF a.err # "" THEN RespResult(<<>>, raw \o l.line, a.err, l.rest)
        ELSE IF a.val < 0 THEN RespResult(NilSummary, raw \o l.line, "", l.rest)
        ELSE IF a.val = 0
        THEN RespResult(<<"(", "e", "m", "p", "t", "y", " ", "s", "e", "t", ")">>,
                        raw \o l.line, "", l.rest)
        ELSE LET e == readElems(l.rest, raw \o l.line, Passes(a, l.rest))
             IN  IF e.err # "" THEN RespResult(<<>>, e.raw, e.err, e.rest)
                 ELSE RespResult(<<"(">> \o FormatInt(a)
                                    \o <<" ", "m", "e", "m", "b", "e", "r", "s", ")">>,
                                 e.raw, "", e.rest)

readAttributeResponse(buf, raw) ==
    LET l == ReadString(buf)
        a == Atoi(TrimSpace(l.line))
    IN  IF l.err # "" THEN RespResult(<<>>, raw, l.err, l.rest)
        ELSE IF a.err # "" THEN RespResult(<<>>, raw \o l.line, a.err, l.rest)
        ELSE LET e == readElems(l.rest, raw \o l.line, PassesTwice(a, l.rest))
             IN  IF e.err # "" THEN RespResult(<<>>, e.raw, e.err, e.rest)
                 ELSE LET v == readResponse(e.rest)
                      IN  IF v.err # "" THEN RespResult(<<>>, e.raw, v.err, v.rest)
                          ELSE RespResult(v.summary, e.raw \o v.raw, "", v.rest)

\* a bug: a tag the decoder does not know is a decode error
readResponse_rejectsUnknown(buf) ==
    IF buf = <<>> THEN RespResult(<<>>, <<>>, "EOF", <<>>)
    ELSE LET firstByte == Head(buf)
             raw == <<firstByte>>
             rd == Tail(buf)
         IN  CASE firstByte \in {"+", "-", ":", ",", "("} -> readSimpleString(rd, raw)
               [] firstByte \in {"$", "!"} -> readBulkStringResponse(rd, raw)
               [] firstByte \in {"*", ">"} -> readArrayResponse(rd, raw)
               [] firstByte = "_" -> readNull(rd, raw)
               [] firstByte = "#" -> readBoolean(rd, raw)
               [] firstByte = "=" -> readVerbatimString(rd, raw)
               [] firstByte = "%" -> readMapResponse(rd, raw)
               [] firstByte = "~" -> readSetResponse(rd, raw)
               [] firstByte = "|" -> readAttributeResponse(rd, raw)
               [] OTHER -> RespResult(<<>>, raw, "unknown type", rd)

readResponse(buf) ==
    IF buf = <<>> THEN RespResult(<<>>, <<>>, "EOF", <<>>)
    ELSE LET firstByte == Head(buf)
             raw == <<firstByte>>
             rd == Tail(buf)
         IN  CASE firstByte \in {"+", "-", ":", ",", "("} -> readSimpleString(rd, raw)
               [] firstByte \in {"$", "!"} -> readBulkStringResponse(rd, raw)
               [] firstByte \in {"*", ">"} -> readArrayResponse(rd, raw)
               [] firstByte = "_" -> readNull(rd, raw)
               [] firstByte = "#" -> readBoolean(rd, raw)
               [] firstByte = "=" -> readVerbatimString(rd, raw)
               [] firstByte = "%" -> readMapResponse(rd, raw)
               [] firstByte = "~" -> readSetResponse(rd, raw)
               [] firstByte = "|" -> readAttributeResponse(rd, raw)
               [] OTHER ->
                    LET l == ReadString(rd)
                    IN  IF l.err # "" THEN RespResult(<<>>, raw, l.err, l.rest)
                        ELSE \* string(firstByte) is the byte's value as a rune
                             RespResult(EncodeRune(ByteVal(firstByte)) \o TrimSpace(l.line),
                                        raw \o l.line, "", l.rest)

(***************************************************************************)
(* The wire format, used to build the inputs: syntactically valid units.   *)
(***************************************************************************)
EncodeBulk(payload) == <<"$">> \o Itoa(Len(payload)) \o CRLF \o payload \o CRLF

NullBulk == <<"$", "-", "1">> \o CRLF

\* a multi-part command of the given elements (encoded bulk strings)
EncodeCmd(elems) == <<"*">> \o Itoa(Len(elems)) \o CRLF \o Flatten(elems)

\* an aggregate of the given tag, declared count and nested units
EncodeAgg(tag, n, units) == <<tag>> \o Itoa(n) \o CRLF \o Flatten(units)

\* a name with a letter beyond ASCII, e with an acute accent in UTF-8, and
\* a name that is no UTF-8: the same letter as the one byte of Latin-1
NameAccent == <<"g", "C3", "A9", "t">>
NameLatin1 == <<"E9", "t">>

Payloads == { <<"g", "e", "t">>, <<"S", "e", "t", "1">>, <<"k">>, <<>>,
              <<"a", CR, LF, "b">>, NameAccent, NameLatin1 }

BulkElems == {EncodeBulk(p) : p \in Payloads} \cup {NullBulk}

MaxElems == 2

MultiPartCommands ==
    UNION { {EncodeCmd(e) : e \in [1..n -> BulkElems]} : n \in 1..MaxElems }

\* the no-break space U+00A0 and the em space U+2003, in UTF-8
NoBreakSpace == <<"C2", "A0">>
EmSpace == <<"E2", "80", "83">>

InlineCommands ==
    { <<"P", "I", "N", "G">> \o CRLF,
      <<"g", "e", "t", " ", "k">> \o CRLF,
      <<" ", "s", "e", "t", " ", " ", "k", "\t", "v", " ">> \o CRLF,
      <<"I", "n", "c", "r", " ", "K", "e", "y">> \o CRLF,
      <<"P", "I", "N", "G", LF>>,
      <<VT, "g", "e", "t">> \o NoBreakSpace \o <<"k">> \o EmSpace \o CRLF,
      NameAccent \o <<" ", "k">> \o CRLF,
      NameLatin1 \o <<" ", "k">> \o CRLF }

\* multi-part commands with spaces around the count and the length
PaddedCommands ==
    { <<"*", VT, "1">> \o CRLF \o <<"$">> \o NoBreakSpace \o <<"4", " ">> \o CRLF
         \o <<"P", "I", "N", "G">> \o CRLF }

ValidCommands == MultiPartCommands \cup InlineCommands \cup PaddedCommands

Sibling == <<":", "1">> \o CRLF

LeafUnits ==
    { <<"+", "O", "K">> \o CRLF,
      <<"-", "E", "R", "R", " ", "x">> \o CRLF,
      <<":", "4", "2">> \o CRLF,
      EncodeBulk(<<"f", "o", "o">>),
      EncodeBulk(<<"a", CR, LF, "b">>),
      EncodeBulk(<<>>),
      NullBulk,
      <<"*", "-", "1">> \o CRLF,
      <<"*", "0">> \o CRLF,
      <<"_">> \o CRLF,
      <<",", "1", ".", "5">> \o CRLF,
      <<"#", "t">> \o CRLF,
      <<"!">> \o Tail(EncodeBulk(<<"b", "a", "d">>)),
      <<"=">> \o Tail(EncodeBulk(<<"t", "x", "t", ":", "h", "i">>)),
      <<"(", "1", "2", "3">> \o CRLF,
      <<"%", "0">> \o CRLF,
      <<"~", "0">> \o CRLF,
      <<"?", "x">> \o CRLF,
      <<"E9", "x">> \o CRLF,
      <<"+", VT, "O", "K">> \o NoBreakSpace \o CRLF,
      <<"#", VT, "t">> \o CRLF }

WrapForms == {"array", "set", "push", "map", "attribute"}

\* a valid aggregate one level deeper than u, with u among its nested units
Wrap(form, u) ==
    CASE form = "array"     -> EncodeAgg("*", 3, <<Sibling, u, Sibling>>)
      [] form = "set"       -> EncodeAgg("~", 2, <<u, Sibling>>)
      [] form = "push"      -> EncodeAgg(">", 1, <<u>>)
      [] form = "map"       -> EncodeAgg("%", 1, <<Sibling, u>>)
      [] form = "attribute" -> EncodeAgg("|", 1, <<Sibling, Sibling, u>>)

\* the bytes that follow the unit on the stream
Trailer == <<"+", "T">> \o CRLF

MaxDepth == 4

NoResult == [err |-> "none"]

(***************************************************************************)
(* The decoder harness: decode valid units followed by Trailer.            *)
(***************************************************************************)
InitDec ==
    /\ dkind = "none"
    /\ unit = <<>>
    /\ depth = 0
    /\ dres = NoResult

DecodeCommand ==
    /\ dkind = "none"
    /\ \E u \in ValidCommands :
        /\ unit' = u
        /\ dres' = readCommand(u \o Trailer)
    /\ dkind' = "cmd"
    /\ UNCHANGED depth
    /\ DecoderStep

DecodeLeaf ==
    /\ dkind = "none"
    /\ \E u \in LeafUnits :
        /\ unit' = u
        /\ dres' = readResponse(u \o Trailer)
    /\ dkind' = "resp"
    /\ UNCHANGED depth
    /\ DecoderStep

DecodeNested ==
    /\ dkind = "resp"
    /\ depth < MaxDepth
    /\ \E form \in WrapForms :
        /\ unit' = Wrap(form, unit)
        /\ dres' = readResponse(Wrap(form, unit) \o Trailer)
    /\ depth' = depth + 1
    /\ UNCHANGED dkind
    /\ DecoderStep

\* payloads of every length up to MaxPayload: n bytes of text, for a
\* verbatim string the type tag "txt:" and then text
MaxPayload == 56

Text(n) == [i \in 1..n |-> Lower[((i - 1) % Len(Lower)) + 1]]

TypeTag == <<"t", "x", "t", ":">>

PayloadFor(tag, n) == IF tag = "=" THEN Take(TypeTag \o Text(n), n) ELSE Text(n)

StringTags == {"$", "!", "="}

\* a bulk string, blob error or verbatim string with a payload of n bytes
StringUnit(tag, n) == <<tag>> \o Itoa(n) \o CRLF \o PayloadFor(tag, n) \o CRLF

DecodeString ==
    /\ dkind = "none"
    /\ \E tag \in StringTags, n \in 0..MaxPayload :
        /\ unit' = StringUnit(tag, n)
        /\ dres' = readResponse(StringUnit(tag, n) \o Trailer)
    /\ dkind' = "str"
    /\ UNCHANGED depth
    /\ DecoderStep

\* aggregates of every declared count from -1 to MaxCount
MaxCount == 2

CountedTags == {"*", "~", ">", "%", "|"}

CountLine(tag, n) == <<tag>> \o Itoa(n) \o CRLF

\* the nested units an aggregate of this tag and count announces: pairs
\* for a map and for an attribute
Announced(tag, n) == IF tag \in {"%", "|"} THEN 2 * n ELSE n

Siblings(k) == Flatten([i \in 1..k |-> Sibling])

\* the aggregate of this tag and count whose last nested unit is u, the
\* others being siblings; with an attribute u is the value that follows
\* the metadata, and with a count of 0 or -1 nothing follows the line
Counted(tag, n, u) ==
    IF tag = "|" THEN CountLine(tag, n) \o Siblings(Announced(tag, n)) \o u
    ELSE IF n <= 0 THEN CountLine(tag, n)
    ELSE CountLine(tag, n) \o Siblings(Announced(tag, n) - 1) \o u

DecodeCounted ==
    /\ dkind = "resp"
    /\ depth <= 1
    /\ \E tag \in CountedTags, n \in (0 - 1)..MaxCount :
        /\ tag = "|" => n >= 0
        /\ unit' = Counted(tag, n, unit)
        /\ dres' = readResponse(Counted(tag, n, unit) \o Trailer)
        /\ depth' = IF tag # "|" /\ n <= 0 THEN 0 ELSE depth + 1
    /\ dkind' = "agg"
    /\ DecoderStep

NextDec ==
    DecodeCommand \/ DecodeLeaf \/ DecodeNested \/ DecodeString \/ DecodeCounted

(***************************************************************************)
(* The decoder on broken input: units with a field that is not a number,   *)
(* with a negative count or length, and units the stream ends in.  A unit  *)
(* the stream ends in is the last of the stream; the others are followed   *)
(* by Trailer.                                                             *)
(***************************************************************************)
Star(n) == <<"*">> \o n \o CRLF

Dollar(n) == <<"$">> \o n \o CRLF

TooLong == <<"9", "9", "9", "9", "9", "9", "9", "9", "9", "9",
             "9", "9", "9", "9", "9", "9", "9", "9", "9", "9">>

\* 10^9, a size a machine with memory for it allocates and no stream of the
\* model reaches
Billion == <<"1", "0", "0", "0", "0", "0", "0", "0", "0", "0">>

\* 2 * 10^14, a size beyond the address space of a process that the
\* runtime does not refuse, and 10^13, a count of strings of that kind
Huge == <<"2", "0", "0", "0", "0", "0", "0", "0", "0", "0", "0", "0", "0", "0", "0">>
TenTrillion == <<"1", "0", "0", "0", "0", "0", "0", "0", "0", "0", "0", "0", "0", "0">>

\* the count, or the length of an element, is not a number of type int
MalformedFieldCommands ==
    { Star(<<"x">>),
      Star(<<>>),
      Star(<<"1", " ", "1">>),
      Star(<<"1">>) \o Dollar(<<"x">>),
      Star(<<"1">>) \o Dollar(<<>>),
      Star(<<"1">>) \o Dollar(TooLong),
      Star(<<"1">>) \o Dollar(TooLong \o <<"x">>),
      Star(<<"2">>) \o EncodeBulk(<<"k">>) \o Dollar(<<"1", "a">>) }

\* the count is negative, or the length of an element is below -1
NegativeFieldCommands ==
    { Star(<<"-", "1">>),
      Star(<<"-", "2">>),
      Star(<<"1">>) \o Dollar(<<"-", "2">>),
      Star(<<"2">>) \o EncodeBulk(<<"k">>) \o Dollar(<<"-", "7">>) }

\* no element is announced
ZeroCountCommands == { Star(<<"0">>) }

\* the stream ends before the count line or an announced element is complete
CutOffCommands ==
    { <<"*", "1">>,
      Star(<<"1">>),
      Star(<<"1">>) \o <<"$", "3">>,
      Star(<<"1">>) \o Dollar(<<"3">>),
      Star(<<"1">>) \o Dollar(<<"3">>) \o <<"g", "e">>,
      Star(<<"1">>) \o Dollar(<<"3">>) \o <<"g", "e", "t", CR>>,
      Star(<<"2">>) \o EncodeBulk(<<"k">>),
      Star(<<"1">>) \o Dollar(Billion),
      Star(<<"1">>) \o Dollar(Billion) \o <<"a", "b", "c">>,
      Star(Billion) \o EncodeBulk(<<"k">>),
      Star(<<"1">>) \o Dollar(Huge) \o <<"a", "b", "c">>,
      Star(TenTrillion) \o EncodeBulk(<<"k">>) }

BrokenCommands ==
    MalformedFieldCommands \cup NegativeFieldCommands \cup ZeroCountCommands
        \cup CutOffCommands

\* the stream that carries the unit u
StreamOf(u, cut) == IF cut THEN u ELSE u \o Trailer

\* a line of the given tag and field
Tagged(tag, n) == <<tag>> \o n \o CRLF

\* response units with a length or count that is not a number of type int
MalformedUnits ==
    { Tagged("$", <<"x">>),
      Tagged("*", <<"x">>),
      Tagged("=", <<>>),
      Tagged("%", <<"1", "x">>),
      Tagged("|", <<"z">>),
      Tagged("~", <<"-">>),
      Tagged("!", TooLong),
      Tagged("$", TooLong \o <<"x">>) }

\* response units the stream ends in
CutOffUnits ==
    { <<"+", "O", "K">>,
      <<"_">>,
      Tagged("$", <<"5">>) \o <<"a", "b">>,
      Tagged("$", <<"3">>) \o <<"f", "o", "o", CR>>,
      Tagged("$", Billion) \o <<"a", "b", "c">>,
      Tagged("=", Billion),
      Tagged("=", Huge),
      Tagged("*", <<"2">>) \o Sibling,
      Tagged("%", <<"1">>) \o Sibling,
      Tagged("|", <<"1">>) \o Sibling \o Sibling }

\* aggregates with a count of 2^62, and the units the stream still holds
HugeCountUnits ==
    { Tagged(tag, HalfIntDigits) \o Sibling \o Sibling : tag \in CountedTags }

\* complete aggregates the stream ends after
LastUnits ==
    { Tagged("*", <<"2">>) \o Sibling \o Sibling,
      Tagged("%", <<"1">>) \o Sibling \o Sibling,
      Tagged("|", <<"1">>) \o Sibling \o Sibling \o Sibling }

EndOfStreamUnits == CutOffUnits \cup HugeCountUnits \cup LastUnits

\* an aggregate one level deeper than u, with u as its last nested unit
WrapLast(form, u) ==
    CASE form = "array"     -> EncodeAgg("*", 2, <<Sibling, u>>)
      [] form = "set"       -> EncodeAgg("~", 1, <<u>>)
      [] form = "push"      -> EncodeAgg(">", 1, <<u>>)
      [] form = "map"       -> EncodeAgg("%", 1, <<Sibling, u>>)
      [] form = "attribute" -> EncodeAgg("|", 1, <<Sibling, Sibling, u>>)

\* the nested units that follow u in Wrap(form, u)
Following(form) == IF form \in {"array", "set"} THEN Sibling ELSE <<>>

\* the machine short of memory decodes the units it has no room for: every
\* other unit is decoded there as on the machine with memory
NoRoom(r) == peers.memory = ShortOfMemory => r.err = "out of memory"

DecodeBrokenResponse ==
    /\ dkind = "none"
    /\ \/ \E u \in MalformedUnits :
            /\ unit' = u
            /\ dres' = readResponse(StreamOf(u, FALSE))
            /\ dkind' = "fault"
       \/ \E u \in EndOfStreamUnits :
            /\ unit' = u
            /\ dres' = readResponse(StreamOf(u, TRUE))
            /\ dkind' = "cut"
    /\ NoRoom(dres')
    /\ UNCHANGED depth
    /\ DecoderStep

\* the broken unit inside one more aggregate
NestBroken ==
    /\ dkind \in {"fault", "cut"}
    /\ depth < MaxDepth
    /\ \E form \in WrapForms :
        \E w \in {IF dkind = "cut" THEN WrapLast(form, unit) ELSE Wrap(form, unit)} :
            /\ unit' = w
            /\ dres' = readResponse(StreamOf(w, dkind = "cut"))
    /\ depth' = depth + 1
    /\ UNCHANGED dkind
    /\ DecoderStep

DecodeBrokenCommand ==
    /\ dkind = "none"
    /\ \E u \in BrokenCommands :
        /\ unit' = u
        /\ dres' = readCommand(StreamOf(u, u \in CutOffCommands))
    /\ NoRoom(dres')
    /\ dkind' = "brokencmd"
    /\ UNCHANGED depth
    /\ DecoderStep

(***************************************************************************)
(* PluginManager (redisproxy; the MySQL proxy's PluginManager has the same *)
(* Register and Close).  An observer is a name.                            *)
(***************************************************************************)
NewPluginManager == <<>>

Register(ps, p) == Append(ps, p)

\* a bug: Close returns at the first observer whose Close fails
Close_stopsAtError(ps, fails) ==
    LET bad == {i \in 1..Len(ps) : ps[i] \in fails}
        n == IF bad = {} THEN Len(ps) ELSE CHOOSE i \in bad : \A j \in bad : i <= j
    IN  [calls |-> [i \in 1..n |-> [p |-> ps[i],
                                    err |-> IF ps[i] \in fails THEN "close error" ELSE ""]],
         ret |-> IF bad = {} THEN "" ELSE "close error"]

\* PluginManager.Close on the registry ps when the Close of the observers in
\* fails returns an error: the calls it makes, in order, and what it returns
Close(ps, fails) ==
    [calls |-> [i \in 1..Len(ps) |-> [p |-> ps[i],
                                      err |-> IF ps[i] \in fails THEN "close error" ELSE ""]],
     ret |-> ""]

Observers == {"A", "B", "C"}

InitPM ==
    /\ hPlugins = NewPluginManager
    /\ hPc = "register"
    /\ hFails \in SUBSET Observers
    /\ hCalls = <<>>
    /\ hRet = "none"

HarnessRegister ==
    /\ hPc = "register"
    /\ \E p \in Observers \ Range(hPlugins) : hPlugins' = Register(hPlugins, p)
    /\ UNCHANGED <<hPc, hFails, hCalls, hRet>>
    /\ HarnessStep

HarnessClose ==
    /\ hPc = "register"
    /\ hCalls' = Close(hPlugins, hFails).calls
    /\ hRet' = Close(hPlugins, hFails).ret
    /\ hPc' = "closed"
    /\ UNCHANGED <<hPlugins, hFails>>
    /\ HarnessStep

NextPM == HarnessRegister \/ HarnessClose

(***************************************************************************)
(* The process: main starts startRedisProxy, which builds the registry and *)
(* starts the accept loop; every accepted connection runs HandleConnection *)
(* in a goroutine of its own (a Session).                                  *)
(***************************************************************************)
Sessions == {"c1", "c2"}

\* the clients send at most MaxCommands commands, all Sessions together
MaxCommands == 2

CmdGet == EncodeCmd(<<EncodeBulk(<<"g", "e", "t">>), EncodeBulk(<<"k">>)>>)
CmdPing == <<"P", "I", "N", "G">> \o CRLF
CmdBadCount == <<"*", "x">> \o CRLF
CmdWideLength == <<"*", "1">> \o CRLF \o <<"$">> \o MaxIntDigits \o CRLF

\* what a client sends in one piece: a whole command, well-formed or not
ClientSends == {CmdGet, CmdPing, CmdBadCount}

\* a length of 2 * 10^14 bytes, more than the address space of a process
\* and less than the runtime refuses, and a length of 10^9 bytes
CmdHugeLength == <<"*", "1">> \o CRLF \o <<"$">> \o Huge \o CRLF \o <<"a", "b", "c">>
CmdBillion == <<"*", "1">> \o CRLF \o <<"$">> \o Billion \o CRLF

\* clients that also declare a length no buffer can have
ClientWideSends == ClientSends \cup {CmdWideLength, CmdHugeLength, CmdBillion}

\* what a client still sends when it closes: nothing
ClientFragments == { <<>> }

ReplyErr == <<"-", "E", "R", "R", " ", "x">> \o CRLF
ReplyArray == EncodeAgg("*", 2, <<Sibling, NullBulk>>)
ReplyBadLength == <<"$", "x">> \o CRLF
\* a status reply, not an error, whose text begins like an error's
ReplyStatus == <<"+", "E", "R", "R">> \o CRLF

\* what the backend sends in one piece: a whole unit, well-formed or not
BackendSends == {ReplyErr, ReplyArray, ReplyBadLength}

\* a reply whose first byte is no tag the decoder knows
ReplyUnknown == <<"?", " ", "h", "i", " ">> \o CRLF

\* another, its first byte beyond ASCII (e with an acute accent in Latin-1)
\* and its text between a vertical tab and a no-break space
ReplyLatin1 == <<"E9", VT, "h", "i">> \o NoBreakSpace \o CRLF

\* a backend that answers with such a reply, alone or with a second unit
\* behind it in the same piece
BackendUnknownSends == {ReplyUnknown, ReplyLatin1 \o ReplyErr}

\* a backend whose replies all begin like an error's, error or not
BackendStatusSends == {ReplyErr, ReplyStatus}

\* a bulk string that announces 10^9 bytes
ReplyBillion == <<"$">> \o Billion \o CRLF \o <<"a", "b", "c">>

\* a backend that answers with wide lengths as well
BackendWideSends == BackendSends \cup {ReplyBillion}

\* the peers of a run: the clients that connect, the commands they send, the
\* units the backend answers with, and where a connection that breaks under
\* a write breaks: at the "start", before it has taken a byte, or "anywhere";
\* with them the memory of the machine the proxy runs on
PeersOf(commands, replies) ==
    [clients |-> Sessions, breaks |-> "start", commands |-> commands, replies |-> replies,
     memory |-> AddressSpace]

Peers == PeersOf(ClientSends, BackendSends)
StatusPeers == PeersOf(ClientSends, BackendStatusSends)
WidePeers == PeersOf(ClientWideSends, BackendWideSends)
UnknownPeers == PeersOf(ClientSends, BackendUnknownSends)

\* the same peers with one client only, whose connections break anywhere
Lone(p) == [p EXCEPT !.clients = {"c1"}, !.breaks = "anywhere"]

\* the runs with these peers: two clients side by side, or one client and
\* every place for a connection to break
Runs(p) == {p, Lone(p)}

\* the same run on a machine short of memory
Short(p) == [p EXCEPT !.memory = ShortOfMemory]

\* what the backend still sends when it closes: a cut-off unit
BackendFragments == { <<"$", "3">> \o CRLF \o <<"f", "o">> }

LogPluginName == "RedisLogPlugin"
RedisPluginName == "RedisPlugin"

\* err.Error(): the message of a non-nil error, as a one-symbol text
ErrText(err) == <<err>>

NoEvent == [Command |-> <<>>, Args |-> <<>>, Raw |-> <<>>, Error |-> <<>>,
            Response |-> <<>>, Timestamp |-> 0, Duration |-> 0]

\* one step of a Session, as recorded in its trace; a dispatch entry holds
\* the Error of the Event as the Session passed it
Entry(k, op, p, err, bytes) == [k |-> k, op |-> op, p |-> p, err |-> err, bytes |-> bytes]

\* the number of the Session's current operation (loop iteration)
OpNo(s) == Cardinality({i \in 1..Len(trace[s]) : trace[s][i].k = "ReadCommand"})

Log(s, es) == trace' = [trace EXCEPT ![s] = @ \o es]

Alive == mainPc \notin {"exited", "crashed"}

\* a read that needs more bytes than have arrived waits for the peer
Blocked(err, eof) == err \in {"EOF", "unexpected EOF"} /\ ~eof

\* a bug: no response is classified
IsErrorReply_never(response) == FALSE

\* the strings.HasPrefix tests on the summary of a decoded response
IsErrorReply(response) ==
    \/ HasPrefix(response, <<"E", "R", "R">>)
    \/ HasPrefix(response, <<"W", "R", "O", "N", "G", "T", "Y", "P", "E">>)
    \/ HasPrefix(response, <<"N", "O", "A", "U", "T", "H">>)
    \/ HasPrefix(response, <<"N", "O", "P", "E", "R", "M">>)

InitProc ==
    /\ mainPc = "start"
    /\ proxyPc = "none"
    /\ plugins = NewPluginManager
    /\ closeLog = <<>>
    /\ nSent = 0
    /\ meddling \in [Sessions -> BOOLEAN]
    /\ peers \in UNION {Runs(p) \cup {Short(q) : q \in Runs(p)}
                         : p \in {Peers, StatusPeers, WidePeers, UnknownPeers}}

InitSess ==
    /\ pc = [s \in Sessions |-> "none"]
    /\ conns = [s \in Sessions |-> {}]
    /\ clientBuf = [s \in Sessions |-> <<>>]
    /\ clientEOF = [s \in Sessions |-> FALSE]
    /\ serverBuf = [s \in Sessions |-> <<>>]
    /\ serverEOF = [s \in Sessions |-> FALSE]
    /\ toServer = [s \in Sessions |-> <<>>]
    /\ toClient = [s \in Sessions |-> <<>>]
    /\ event = [s \in Sessions |-> NoEvent]
    /\ cmdRaw = [s \in Sessions |-> <<>>]
    /\ startTime = [s \in Sessions |-> 0]
    /\ respRaw = [s \in Sessions |-> <<>>]
    /\ trace = [s \in Sessions |-> <<>>]

\* the process is gone: its goroutines, their locals and their sockets
ProcessExit(how) ==
    /\ mainPc' = how
    /\ pc' = [s \in Sessions |-> "none"]
    /\ conns' = [s \in Sessions |-> {}]
    /\ clientBuf' = [s \in Sessions |-> <<>>]
    /\ clientEOF' = [s \in Sessions |-> FALSE]
    /\ serverBuf' = [s \in Sessions |-> <<>>]
    /\ serverEOF' = [s \in Sessions |-> FALSE]
    /\ toServer' = [s \in Sessions |-> <<>>]
    /\ toClient' = [s \in Sessions |-> <<>>]
    /\ event' = [s \in Sessions |-> NoEvent]
    /\ cmdRaw' = [s \in Sessions |-> <<>>]
    /\ startTime' = [s \in Sessions |-> 0]
    /\ respRaw' = [s \in Sessions |-> <<>>]
    /\ trace' = [s \in Sessions |-> <<>>]

\* main: go startRedisProxy(cfg), then wait for the signal
MainStart ==
    /\ mainPc = "start"
    /\ mainPc' = "wait"
    /\ proxyPc' = "registerLog"
    /\ UNCHANGED <<plugins, closeLog, nSent, sessVars>>
    /\ ProxyStep

\* main: <-sigChan, and main returns.  The process ends with it: the
\* goroutine of startRedisProxy, blocked in select {} (or still starting),
\* is never resumed, so its deferred pluginManager.Close() does not run.
MainSignal ==
    /\ mainPc = "wait"
    /\ ProcessExit("exited")
    /\ UNCHANGED <<proxyPc, plugins, closeLog, nSent>>
    /\ ProxyStep

\* startRedisProxy: if cfg.RedisPlugins.Log.Enabled { Register(NewLogPlugin()) }
RegisterLogPlugin ==
    /\ Alive /\ proxyPc = "registerLog"
    /\ \E enabled \in BOOLEAN :
        plugins' = IF enabled THEN Register(plugins, LogPluginName) ELSE plugins
    /\ proxyPc' = "registerRedis"
    /\ UNCHANGED <<mainPc, closeLog, nSent, sessVars>>
    /\ ProxyStep

\* startRedisProxy: if cfg.RedisPlugins.Redis.Enabled, NewRedisPlugin and,
\* unless it failed to connect, Register
RegisterRedisPlugin ==
    /\ Alive /\ proxyPc = "registerRedis"
    /\ \E enabled \in BOOLEAN, connected \in BOOLEAN :
        plugins' = IF enabled /\ connected THEN Register(plugins, RedisPluginName)
                   ELSE plugins
    /\ proxyPc' = "startProxy"
    /\ UNCHANGED <<mainPc, closeLog, nSent, sessVars>>
    /\ ProxyStep

\* startRedisProxy: StartProxy listens and starts the accept loop, and
\* startRedisProxy blocks in select {} for ever; when net.Listen fails,
\* log.Fatalf ends the process at once, deferred calls not run.
StartProxy ==
    /\ Alive /\ proxyPc = "startProxy"
    /\ \/ proxyPc' = "select" /\ UNCHANGED <<mainPc, sessVars>>
       \/ proxyPc' = "fatal" /\ ProcessExit("exited")
    /\ UNCHANGED <<plugins, closeLog, nSent>>
    /\ ProxyStep

\* a bug: the listener accepts while startRedisProxy still registers
Listening_early == proxyPc \in {"registerRedis", "startProxy", "select"}

\* StartProxy has been called: the listener is open and its loop accepts
Listening == proxyPc = "select"

\* the accept loop: go handler.HandleConnection(conn)
Accept(s) ==
    /\ Alive /\ Listening
    /\ s \in peers.clients
    /\ pc[s] = "none"
    /\ pc' = [pc EXCEPT ![s] = "Dial"]
    /\ conns' = [conns EXCEPT ![s] = {"client"}]
    /\ UNCHANGED <<procVars, clientBuf, clientEOF, serverBuf, serverEOF, toServer,
                   toClient, event, cmdRaw, startTime, respRaw, trace>>
    /\ ProxyStep

\* the client sends a command, at any time
ClientSend(s) ==
    /\ Alive /\ pc[s] \notin {"none", "Closed"}
    /\ ~clientEOF[s]
    /\ nSent < MaxCommands
    /\ \E bytes \in peers.commands : clientBuf' = [clientBuf EXCEPT ![s] = @ \o bytes]
    /\ nSent' = nSent + 1
    /\ UNCHANGED <<mainPc, proxyPc, plugins, closeLog, pc, conns, clientEOF, serverBuf,
                   serverEOF, toServer, toClient, event, cmdRaw, startTime, respRaw, trace>>
    /\ ProxyStep

\* the client ends the conversation.  The Session notices only when it
\* waits for a command and has consumed what was sent, so the close is taken
\* at that moment.
ClientClose(s) ==
    /\ Alive /\ pc[s] = "ReadCommand" /\ clientBuf[s] = <<>>
    /\ ~clientEOF[s]
    /\ \E bytes \in ClientFragments : clientBuf' = [clientBuf EXCEPT ![s] = @ \o bytes]
    /\ clientEOF' = [clientEOF EXCEPT ![s] = TRUE]
    /\ UNCHANGED <<procVars, pc, conns, serverBuf, serverEOF, toServer, toClient,
                   event, cmdRaw, startTime, respRaw, trace>>
    /\ ProxyStep

\* the backend answers the command it was sent, or closes instead
BackendSend(s) ==
    /\ Alive /\ pc[s] = "ReadResponse"
    /\ ~serverEOF[s]
    /\ serverBuf[s] = <<>>
    /\ \E bytes \in peers.replies : serverBuf' = [serverBuf EXCEPT ![s] = @ \o bytes]
    /\ UNCHANGED <<procVars, pc, conns, clientBuf, clientEOF, serverEOF, toServer,
                   toClient, event, cmdRaw, startTime, respRaw, trace>>
    /\ ProxyStep

BackendClose(s) ==
    /\ Alive /\ pc[s] = "ReadResponse"
    /\ ~serverEOF[s]
    /\ serverBuf[s] = <<>>
    /\ \E bytes \in BackendFragments : serverBuf' = [serverBuf EXCEPT ![s] = @ \o bytes]
    /\ serverEOF' = [serverEOF EXCEPT ![s] = TRUE]
    /\ UNCHANGED <<procVars, pc, conns, clientBuf, clientEOF, toServer, toClient,
                   event, cmdRaw, startTime, respRaw, trace>>
    /\ ProxyStep

(***************************************************************************)
(* PluginManager.OnCommand and OnCommandComplete: the observer calls one   *)
(* dispatch makes, in order.  A dispatch runs in the Session's goroutine   *)
(* and returns before the Session's next statement.                        *)
(***************************************************************************)
\* what an observer that overwrites every field of the Event leaves in it
Meddled == [Command |-> <<"x">>, Args |-> <<<<"x">>>>, Raw |-> <<"x">>,
            Error |-> <<"x">>, Response |-> <<"x">>, Timestamp |-> 0, Duration |-> 0]

\* every observer is handed the pointer to the one Event of the iteration:
\* the Event the Session holds when the dispatch has returned
Handed(s, ev) == IF meddling[s] /\ plugins # <<>> THEN Meddled ELSE ev

\* a bug: the loop runs over the registry from its end
OnCommand_reversed(op, ev) ==
    [i \in 1..Len(plugins) |->
        Entry("OnCommand", op, plugins[Len(plugins) + 1 - i], ev.Error, <<>>)]

\* a bug: the loop stops one observer short
OnCommand_offByOne(op, ev) ==
    [i \in 1..(Len(plugins) - 1) |-> Entry("OnCommand", op, plugins[i], ev.Error, <<>>)]

OnCommand(op, ev) ==
    [i \in 1..Len(plugins) |-> Entry("OnCommand", op, plugins[i], ev.Error, <<>>)]

\* a bug: the completion dispatch calls p.OnCommand
OnCommandComplete_callsOnCommand(op, ev) ==
    [i \in 1..Len(plugins) |-> Entry("OnCommand", op, plugins[i], ev.Error, <<>>)]

OnCommandComplete(op, ev) ==
    [i \in 1..Len(plugins) |-> Entry("OnCommandComplete", op, plugins[i], ev.Error, <<>>)]

(***************************************************************************)
(* Handler.HandleConnection, one action per blocking call (the dial, the   *)
(* two reads, the two writes, the wait of a completion dispatch) together  *)
(* with the statements that follow it up to the next blocking call.  pc[s] *)
(* names the call the Session is at.                                       *)
(***************************************************************************)
\* time.Now() in a Session: its clock reads the number of steps (calls and
\* notifications) the Session has completed, of which the running action has
\* completed the last `done'
Now(s, done) == Len(trace[s]) + done

\* a bug: the start instant is taken before the observers are notified
TakeStartTime_beforeDispatch(s) == Now(s, 1)

\* startTime := time.Now(), after h.pluginManager.OnCommand(event) returned
TakeStartTime(s) == Now(s, 1 + Len(plugins))

\* a bug: the duration is taken when the completion dispatch has returned
Since_afterDispatch(s) == Now(s, 1 + Len(plugins)) - startTime[s]

\* time.Since(startTime), when the write or the read has returned
Since(s) == Now(s, 1) - startTime[s]

\* a panic in a Session's goroutine, which nothing recovers, or a fatal
\* error of the runtime: the runtime ends the process
Crash ==
    /\ ProcessExit("crashed")
    /\ UNCHANGED <<proxyPc, plugins, closeLog, nSent>>

\* the loop goes on to its next blocking call
Goto(s, next) ==
    /\ pc' = [pc EXCEPT ![s] = next]
    /\ UNCHANGED conns

\* a bug: a failed call does not end the loop, which goes on with the next
\* command
Return_continues(s) ==
    /\ pc' = [pc EXCEPT ![s] = "ReadCommand"]
    /\ UNCHANGED conns

\* return: the deferred serverConn.Close() and clientConn.Close() run
Return(s) ==
    /\ pc' = [pc EXCEPT ![s] = "Closed"]
    /\ conns' = [conns EXCEPT ![s] = {}]

\* a bug: the failed dial is logged and the loop is entered all the same
DialError_goesOn(s) == Goto(s, "ReadCommand")

\* if err != nil { log.Printf(...); return } after net.Dial
DialError(s) == Return(s)

\* net.Dial("tcp", h.targetAddr); defer serverConn.Close()
Dial(s) ==
    /\ Alive /\ pc[s] = "Dial"
    /\ \/ /\ pc' = [pc EXCEPT ![s] = "ReadCommand"]
          /\ conns' = [conns EXCEPT ![s] = @ \cup {"server"}]
          /\ Log(s, <<Entry("Dial", 0, "", <<>>, <<>>)>>)
       \/ /\ DialError(s)
          /\ Log(s, <<Entry("Dial", 0, "", ErrText("dial error"), <<>>)>>)
    /\ UNCHANGED <<procVars, clientBuf, clientEOF, serverBuf, serverEOF, toServer,
                   toClient, event, cmdRaw, startTime, respRaw>>
    /\ ProxyStep

\* command, args, raw, err := h.readCommand(clientReader); the event;
\* h.pluginManager.OnCommand(event)
ReadCommand(s) ==
    /\ Alive /\ pc[s] = "ReadCommand"
    /\ \E r \in {readCommand(clientBuf[s])} :
       \E consumed \in {Take(clientBuf[s], Len(clientBuf[s]) - Len(r.rest))},
          ev \in {[Command |-> r.command, Args |-> r.args, Raw |-> r.raw,
                   Error |-> <<>>, Response |-> <<>>, Timestamp |-> Now(s, 1),
                   Duration |-> 0]} :
        IF r.err \in Fatal THEN Crash ELSE
           /\ ~Blocked(r.err, clientEOF[s])
           /\ clientBuf' = [clientBuf EXCEPT ![s] = r.rest]
           /\ IF r.err # ""
              THEN /\ Return(s)
                   /\ Log(s, <<Entry("ReadCommandFailed", OpNo(s), "", ErrText(r.err),
                                     consumed)>>)
                   /\ UNCHANGED <<event, cmdRaw, startTime>>
              ELSE /\ cmdRaw' = [cmdRaw EXCEPT ![s] = r.raw]
                   /\ startTime' = [startTime EXCEPT ![s] = TakeStartTime(s)]
                   /\ event' = [event EXCEPT ![s] = Handed(s, ev)]
                   /\ Log(s, <<Entry("ReadCommand", OpNo(s) + 1, "", <<>>, consumed)>>
                             \o OnCommand(OpNo(s) + 1, ev))
                   /\ Goto(s, "WriteServer")
           /\ UNCHANGED <<procVars, clientEOF, serverBuf, serverEOF, toServer, toClient,
                          respRaw>>
    /\ ProxyStep

\* RedisPlugin.OnCommandComplete sends LPUSH and LTRIM, or PUBLISH, to the
\* external store and waits for each answer, in the Session's goroutine.  A
\* completion dispatch to a registry with the RedisPlugin has called every
\* observer (startRedisProxy registers the RedisPlugin last) and returns
\* when the store has answered; the other Sessions, the accept loop and main
\* run meanwhile.
DispatchWaits == RedisPluginName \in Range(plugins)

\* the completion dispatch: the Session waits in it (pc is wait) or, with no
\* observer that waits, is through it and goes on with the statement after
AfterDispatch(s, wait, after) == IF DispatchWaits THEN Goto(s, wait) ELSE after

\* a bug: a failed write to the backend returns without the dispatch
WriteErrorBranch_noDispatch(op, ev) == <<>>

\* the error branch of the write to the backend, after event.Error is set:
\* h.pluginManager.OnCommandComplete(event); return
WriteErrorBranch(op, ev) == OnCommandComplete(op, ev)

\* a bug: the error of the failed write is not put on the event
MarkWriteError_forgets(ev) == ev

\* event.Error = err.Error() in the error branch of the write to the backend
MarkWriteError(ev) == [ev EXCEPT !.Error = ErrText("write error")]

\* how many bytes a failed Write of raw has written before its error: any
\* number short of all of them, none included
FailedWrites(raw) == 0..(Len(raw) - 1)

\* those of them the peers of the run produce
Broken(raw) == {n \in FailedWrites(raw) : peers.breaks = "anywhere" \/ n = 0}

\* a bug: the bytes written to the backend are taken from the Event
WriteArgument_fromEvent(s) == event[s].Raw

\* the argument of serverConn.Write: []byte(raw), the local of the iteration
WriteArgument(s) == cmdRaw[s]

\* _, err = serverConn.Write([]byte(raw)) and its error branch, up to the
\* return or to the wait of the completion dispatch
WriteServer(s) ==
    /\ Alive /\ pc[s] = "WriteServer"
    /\ \E bytes \in {WriteArgument(s)} :
       \/ /\ toServer' = [toServer EXCEPT ![s] = @ \o bytes]
          /\ Log(s, <<Entry("WriteServer", OpNo(s), "", <<>>, bytes)>>)
          /\ Goto(s, "ReadResponse")
          /\ UNCHANGED event
       \/ \E n \in Broken(bytes) :
          \E ev \in {[MarkWriteError(event[s]) EXCEPT !.Duration = Since(s)]} :
              /\ toServer' = [toServer EXCEPT ![s] = @ \o Take(bytes, n)]
              /\ event' = [event EXCEPT ![s] = Handed(s, ev)]
              /\ Log(s, <<Entry("WriteServerFailed", OpNo(s), "", ev.Error, Take(bytes, n))>>
                        \o WriteErrorBranch(OpNo(s), ev))
              /\ AfterDispatch(s, "CompleteWriteError", Return(s))
    /\ UNCHANGED <<procVars, clientBuf, clientEOF, serverBuf, serverEOF, toClient, cmdRaw,
                   startTime, respRaw>>
    /\ ProxyStep

\* a bug: the loop goes on to the next command after the dispatch, before
\* the response is written to the client
AfterComplete_pipelined == "ReadCommand"

\* the statement after h.pluginManager.OnCommandComplete(event) on the
\* success path: the write to the client
AfterComplete == "WriteClient"

\* a bug: the error branch of readResponse does not return, and the loop
\* goes on to write to the client
ReadResponseError_forwards(s) == Goto(s, "WriteClient")

\* the return that ends the error branch of readResponse
ReadResponseError(s) == Return(s)

\* response, respRaw, err := h.readResponse(serverReader); its error branch;
\* the error classification; h.pluginManager.OnCommandComplete(event), up to
\* its return or to its wait
ReadResponse(s) ==
    /\ Alive /\ pc[s] = "ReadResponse"
    /\ \E r \in {readResponse(serverBuf[s])} :
       \E consumed \in {Take(serverBuf[s], Len(serverBuf[s]) - Len(r.rest))},
          failed \in {[event[s] EXCEPT !.Error = ErrText(r.err), !.Duration = Since(s)]},
          done \in {[event[s] EXCEPT !.Duration = Since(s),
                                     !.Response = r.summary,
                                     !.Error = IF IsErrorReply(r.summary) THEN r.summary
                                               ELSE @]} :
        IF r.err \in Fatal THEN Crash ELSE
           /\ ~Blocked(r.err, serverEOF[s])
           /\ serverBuf' = [serverBuf EXCEPT ![s] = r.rest]
           /\ IF r.err # ""
              THEN /\ event' = [event EXCEPT ![s] = Handed(s, failed)]
                   /\ Log(s, <<Entry("ReadResponseFailed", OpNo(s), "", failed.Error,
                                     consumed)>>
                             \o OnCommandComplete(OpNo(s), failed))
                   /\ AfterDispatch(s, "CompleteReadError", ReadResponseError(s))
                   /\ UNCHANGED respRaw
              ELSE /\ event' = [event EXCEPT ![s] = Handed(s, done)]
                   /\ respRaw' = [respRaw EXCEPT ![s] = r.raw]
                   /\ Log(s, <<Entry("ReadResponse", OpNo(s), "", <<>>, consumed)>>
                             \o OnCommandComplete(OpNo(s), done))
                   /\ AfterDispatch(s, "Complete", Goto(s, AfterComplete))
           /\ UNCHANGED <<procVars, clientBuf, clientEOF, serverEOF, toServer, toClient,
                          cmdRaw, startTime>>
    /\ ProxyStep

\* the places a Session waits at in a completion dispatch: on the success
\* path, and in the error branch of the write and of the read
DispatchWaitsAt == {"Complete", "CompleteWriteError", "CompleteReadError"}

\* the store has answered the last command of the RedisPlugin, or the call
\* has failed, which the RedisPlugin logs: its OnCommandComplete returns, the
\* dispatch returns, and the Session goes on with the statement after it
Complete(s) ==
    /\ Alive /\ pc[s] \in DispatchWaitsAt
    /\ CASE pc[s] = "Complete" -> Goto(s, AfterComplete)
         [] pc[s] = "CompleteWriteError" -> Return(s)
         [] pc[s] = "CompleteReadError" -> ReadResponseError(s)
    /\ UNCHANGED <<procVars, clientBuf, clientEOF, serverBuf, serverEOF, toServer,
                   toClient, event, cmdRaw, startTime, respRaw, trace>>
    /\ ProxyStep

\* a bug: after the write to the client the loop reads the backend again
AfterWriteClient_readsAgain == "ReadResponse"

\* the end of the loop body: the for goes round to readCommand
AfterWriteClient == "ReadCommand"

\* _, err = clientConn.Write(respRaw) and its error branch
WriteClient(s) ==
    /\ Alive /\ pc[s] = "WriteClient"
    /\ \/ /\ toClient' = [toClient EXCEPT ![s] = @ \o respRaw[s]]
          /\ Log(s, <<Entry("WriteClient", OpNo(s), "", <<>>, respRaw[s])>>)
          /\ Goto(s, AfterWriteClient)
       \/ \E n \in Broken(respRaw[s]) :
          /\ toClient' = [toClient EXCEPT ![s] = @ \o Take(respRaw[s], n)]
          /\ Log(s, <<Entry("WriteClientFailed", OpNo(s), "", ErrText("write error"),
                            Take(respRaw[s], n))>>)
          /\ Return(s)
    /\ UNCHANGED <<procVars, clientBuf, clientEOF, serverBuf, serverEOF, toServer,
                   event, cmdRaw, startTime, respRaw>>
    /\ ProxyStep

HandleConnection(s) ==
    \/ Dial(s)
    \/ ReadCommand(s)
    \/ WriteServer(s)
    \/ ReadResponse(s)
    \/ Complete(s)
    \/ WriteClient(s)

NextProc ==
    \/ MainStart
    \/ MainSignal
    \/ RegisterLogPlugin
    \/ RegisterRedisPlugin
    \/ StartProxy
    \/ \E s \in Sessions :
        \/ Accept(s)
        \/ ClientSend(s)
        \/ ClientClose(s)
        \/ BackendSend(s)
        \/ BackendClose(s)
        \/ HandleConnection(s)

(***************************************************************************)
(* RedisPlugin.OnCommandComplete against its external store, called from   *)
(* the completion dispatch of concurrent Sessions.  Every store command is *)
(* a step of its own (the store runs the commands of all callers one at a  *)
(* time) and may fail.  The registry of the harness has an observer after  *)
(* the RedisPlugin.  A record is the number of its dispatch.               *)
(***************************************************************************)
\* the Sessions begin at most MaxCalls dispatches, all together
MaxCalls == 3

\* config.MaxListLen is at most MaxCap
MaxCap == 2

Configs == [UseList : BOOLEAN, MaxListLen : 0..MaxCap]

\* the zero value of RedisPluginConfig
NoConfig == [UseList |-> FALSE, MaxListLen |-> 0]

HarnessRegistry == <<RedisPluginName, LogPluginName>>

\* the store's LPUSH of one value and its LTRIM, on a list newest first
LPush(l, v) == <<v>> \o l

LTrim(l, start, stop) ==
    SubSeq(l, start + 1, IF stop + 1 < Len(l) THEN stop + 1 ELSE Len(l))

\* a bug: the trim keeps one record more than the cap
TrimStop_offByOne(cfg) == cfg.MaxListLen

\* the stop argument of p.client.LTrim(p.ctx, p.config.ListKey, 0, ...)
TrimStop(cfg) == cfg.MaxListLen - 1

\* after the LPUSH: if p.config.MaxListLen > 0 the trim, else the return
AfterPush(cfg) == IF cfg.MaxListLen > 0 THEN "LTrim" ELSE "Later"

\* a bug: a store error panics in the Session's goroutine
OnStoreError_panics(next) == "Panic"

\* if err != nil { log.Printf(...) }: the method goes on
OnStoreError(next) == next

NoCall == [pc |-> "idle", begun |-> <<>>, seen |-> <<>>, failed |-> {}, out |-> <<>>]

\* the record of the dispatch the Session is in
Rec(c) == call[c].begun[Len(call[c].begun)]

InitSink ==
    /\ config \in Configs
    /\ list = <<>>
    /\ pushed = <<>>
    /\ trimFailed = 0
    /\ call = [c \in Sessions |-> NoCall]
    /\ nCalls = 0

\* h.pluginManager.OnCommandComplete(event) calls the first observer, the
\* RedisPlugin: json.Marshal(event), then the branch on p.config.UseList
Dispatch(c) ==
    /\ call[c].pc = "idle"
    /\ nCalls < MaxCalls
    /\ nCalls' = nCalls + 1
    /\ call' = [call EXCEPT ![c].pc = IF config.UseList THEN "LPush" ELSE "Publish",
                            ![c].begun = Append(@, nCalls + 1),
                            ![c].seen = <<HarnessRegistry[1]>>]
    /\ UNCHANGED <<config, list, pushed, trimFailed>>
    /\ SinkStep

\* p.client.LPush(p.ctx, p.config.ListKey, data).Err() and its error branch
RedisLPush(c) ==
    /\ call[c].pc = "LPush"
    /\ \/ /\ list' = LPush(list, Rec(c))
          /\ pushed' = Append(pushed, Rec(c))
          /\ call' = [call EXCEPT ![c].pc = AfterPush(config)]
       \/ /\ call' = [call EXCEPT ![c].pc = OnStoreError(AfterPush(config)),
                                  ![c].failed = @ \cup {Rec(c)}]
          /\ UNCHANGED <<list, pushed>>
    /\ UNCHANGED <<config, trimFailed, nCalls>>
    /\ SinkStep

\* p.client.LTrim(p.ctx, p.config.ListKey, 0, p.config.MaxListLen-1), its
\* result not looked at
RedisLTrim(c) ==
    /\ call[c].pc = "LTrim"
    /\ \/ /\ list' = LTrim(list, 0, TrimStop(config))
          /\ call' = [call EXCEPT ![c].pc = "Later"]
          /\ trimFailed' = 0
       \/ /\ trimFailed' = trimFailed + 1
          /\ call' = [call EXCEPT ![c].pc = "Later", ![c].failed = @ \cup {Rec(c)}]
          /\ UNCHANGED list
    /\ UNCHANGED <<config, pushed, nCalls>>
    /\ SinkStep

\* p.client.Publish(p.ctx, p.config.Channel, data).Err() and its error branch
RedisPublish(c) ==
    /\ call[c].pc = "Publish"
    /\ \/ call' = [call EXCEPT ![c].pc = "Later"]
       \/ call' = [call EXCEPT ![c].pc = OnStoreError("Later"),
                               ![c].failed = @ \cup {Rec(c)}]
    /\ UNCHANGED <<config, list, pushed, trimFailed, nCalls>>
    /\ SinkStep

\* the RedisPlugin has returned: the dispatch calls the next observer, and
\* returns
LaterObserver(c) ==
    /\ call[c].pc = "Later"
    /\ call' = [call EXCEPT ![c].pc = "Write", ![c].seen = Append(@, HarnessRegistry[2])]
    /\ UNCHANGED <<config, list, pushed, trimFailed, nCalls>>
    /\ SinkStep

\* clientConn.Write(respRaw), and the loop goes on to the next command
Forward(c) ==
    /\ call[c].pc = "Write"
    /\ call' = [call EXCEPT ![c].pc = "idle", ![c].seen = <<>>,
                            ![c].out = Append(@, Rec(c))]
    /\ UNCHANGED <<config, list, pushed, trimFailed, nCalls>>
    /\ SinkStep

NextSink ==
    \E c \in Sessions :
        \/ Dispatch(c)
        \/ RedisLPush(c)
        \/ RedisLTrim(c)
        \/ RedisPublish(c)
        \/ LaterObserver(c)
        \/ Forward(c)

(***************************************************************************)
(* The MySQL variant: ProxyHandler, the handler of one client connection,  *)
(* with the PluginManager of QueryEvents and a FilterPlugin registered in  *)
(* front of a LogPlugin.  A method of the handler is one action with two   *)
(* halves: up to the call to the backend, and from its return.  qlog is    *)
(* the history of the calls made, each with the Event as it was then.      *)
(***************************************************************************)
\* the database of the configuration, and the names a client asks for
ConfigDB == "a"
DBNames == {"a", "b"}

\* the statements and the table a client sends
Queries == {"SELECT 1", "UPDATE t"}
Statements == {"INSERT ?"}
Tables == {"t"}

\* a *mysql.Result, by its number of rows; nil
Results == {[rows |-> 0], [rows |-> 2]}
NilResult == [rows |-> -1]

\* what a call to the backend returns: nil or an error
BackendErrors == {"", "ERROR 1049"}

\* how many Events a handler creates in a run
MaxQueries == 2

\* the predicates a FilterPlugin is built with
Predicates == {"always", "never", "query", "slow"}

\* p.predicate(event)
Holds(ev) ==
    CASE predicate = "always" -> TRUE
      [] predicate = "never" -> FALSE
      [] predicate = "query" -> ev.Type = "query"
      [] predicate = "slow" -> ev.Duration > 0

NoQuery == [Type |-> "", Query |-> "", Args |-> <<>>, Database |-> "", Timestamp |-> 0,
            Duration |-> 0, Error |-> "", RowCount |-> 0]

\* one call, as recorded in qlog: who was called, which method, for which
\* Event (its number) and with which arguments
QEntry(who, method, op, ev, result, err) ==
    [who |-> who, method |-> method, op |-> op, event |-> ev, result |-> result,
     err |-> err]

InitQuery ==
    /\ currentDB = ConfigDB
    /\ qpc = "idle"
    /\ qevent = NoQuery
    /\ qstart = 0
    /\ qlog = <<>>
    /\ nQueries = 0
    /\ prepared = FALSE
    /\ predicate = "unset"

\* a bug: OnQuery is forwarded whatever the predicate says
FilterOnQuery_always(op, ev) ==
    <<QEntry("FilterPlugin", "OnQuery", op, ev, NilResult, ""),
      QEntry("inner", "OnQuery", op, ev, NilResult, "")>>

\* FilterPlugin.OnQuery
FilterOnQuery(op, ev) ==
    <<QEntry("FilterPlugin", "OnQuery", op, ev, NilResult, "")>>
    \o IF Holds(ev) THEN <<QEntry("inner", "OnQuery", op, ev, NilResult, "")>> ELSE <<>>

\* FilterPlugin.OnQueryComplete
FilterOnQueryComplete(op, ev, result, err) ==
    <<QEntry("FilterPlugin", "OnQueryComplete", op, ev, result, err)>>
    \o IF Holds(ev) THEN <<QEntry("inner", "OnQueryComplete", op, ev, result, err)>>
       ELSE <<>>

\* FilterPlugin.Close
FilterClose ==
    <<QEntry("FilterPlugin", "Close", 0, NoQuery, NilResult, ""),
      QEntry("inner", "Close", 0, NoQuery, NilResult, "")>>

\* PluginManager.OnQuery: every registered plugin, in order
OnQuery(op, ev) ==
    FilterOnQuery(op, ev) \o <<QEntry("LogPlugin", "OnQuery", op, ev, NilResult, "")>>

\* PluginManager.OnQueryComplete: every registered plugin, in order
OnQueryComplete_mysql(op, ev, result, err) ==
    FilterOnQueryComplete(op, ev, result, err)
    \o <<QEntry("LogPlugin", "OnQueryComplete", op, ev, result, err)>>

\* time.Now() in the handler: its clock reads the number of calls made
QNow(done) == Len(qlog) + done

\* the NewFilterPlugin and Register calls of the start of the process
NewFilterPlugin(p) ==
    /\ predicate = "unset"
    /\ predicate' = p
    /\ UNCHANGED <<currentDB, qpc, qevent, qstart, qlog, nQueries, prepared>>
    /\ QueryStep

\* the first half of a method: the Event, h.pluginManager.OnQuery(event),
\* startTime := time.Now(), and the call to the backend
CallBackend(type, query, args) ==
    /\ predicate # "unset" /\ qpc = "idle"
    /\ nQueries < MaxQueries
    /\ \E ev \in {[Type |-> type, Query |-> query, Args |-> args, Database |-> currentDB,
                   Timestamp |-> QNow(0), Duration |-> 0, Error |-> "", RowCount |-> 0]} :
          /\ qevent' = ev
          /\ qlog' = qlog \o OnQuery(nQueries + 1, ev)
          /\ qstart' = QNow(Len(OnQuery(nQueries + 1, ev)))
    /\ nQueries' = nQueries + 1
    /\ qpc' = type
    /\ UNCHANGED <<currentDB, prepared, predicate>>
    /\ QueryStep

\* the second half: the backend returned; event.Duration = time.Since(startTime);
\* h.pluginManager.OnQueryComplete(event, passed, err)
Returned(type, method, result, passed, err) ==
    /\ qpc = type
    /\ \E ev \in {[qevent EXCEPT !.Duration = QNow(1) - qstart]} :
          /\ qevent' = ev
          /\ qlog' = qlog \o <<QEntry("backend", method, nQueries, qevent, result, err)>>
                          \o OnQueryComplete_mysql(nQueries, ev, passed, err)
    /\ qpc' = "idle"
    /\ UNCHANGED <<qstart, nQueries, predicate>>
    /\ QueryStep

\* a bug: the current database is set whether or not the backend accepted it
AfterUseDB_always(dbName, err) == dbName

\* if err == nil { h.currentDB = dbName }
AfterUseDB(dbName, err) == IF err = "" THEN dbName ELSE currentDB

UseDB(dbName) ==
    \/ CallBackend("use_db", dbName, <<>>)
    \/ \E err \in BackendErrors :
          /\ qevent.Query = dbName
          /\ Returned("use_db", "UseDB", NilResult, NilResult, err)
          /\ currentDB' = AfterUseDB(dbName, err)
          /\ UNCHANGED prepared

HandleQuery(query) ==
    \/ CallBackend("query", query, <<>>)
    \/ \E err \in BackendErrors, result \in Results :
          /\ qevent.Query = query
          /\ Returned("query", "Execute", IF err = "" THEN result ELSE NilResult,
                      IF err = "" THEN result ELSE NilResult, err)
          /\ UNCHANGED <<currentDB, prepared>>

HandleFieldList(table, fieldWildcard) ==
    \/ CallBackend("field_list", table \o " " \o fieldWildcard, <<>>)
    \/ \E err \in BackendErrors, result \in Results :
          /\ qevent.Query = table \o " " \o fieldWildcard
          /\ Returned("field_list", "FieldList", IF err = "" THEN result ELSE NilResult,
                      NilResult, err)
          /\ UNCHANGED <<currentDB, prepared>>

HandleStmtPrepare(query) ==
    \/ CallBackend("prepare", query, <<>>)
    \/ \E err \in BackendErrors :
          /\ qevent.Query = query
          /\ Returned("prepare", "Prepare", NilResult, NilResult, err)
          /\ prepared' = (prepared \/ err = "")
          /\ UNCHANGED currentDB

\* a bug: a failed execute returns before the completion is dispatched
HandleStmtExecute_returnsEarly(query, args) ==
    \/ prepared /\ CallBackend("execute", query, args)
    \/ \E err \in BackendErrors, result \in Results :
          /\ qevent.Query = query /\ qevent.Args = args
          /\ IF err = ""
             THEN Returned("execute", "StmtExecute", result, result, err)
             ELSE /\ qpc = "execute"
                  /\ qlog' = qlog \o <<QEntry("backend", "StmtExecute", nQueries, qevent,
                                              NilResult, err)>>
                  /\ qpc' = "idle"
                  /\ UNCHANGED <<qevent, qstart, nQueries, predicate>>
                  /\ QueryStep
          /\ UNCHANGED <<currentDB, prepared>>

\* context is the statement HandleStmtPrepare returned
HandleStmtExecute(query, args) ==
    \/ prepared /\ CallBackend("execute", query, args)
    \/ \E err \in BackendErrors, result \in Results :
          /\ qevent.Query = query /\ qevent.Args = args
          /\ Returned("execute", "StmtExecute", IF err = "" THEN result ELSE NilResult,
                      IF err = "" THEN result ELSE NilResult, err)
          /\ UNCHANGED <<currentDB, prepared>>

\* stmt.Close() on the backend, and nothing else
HandleStmtClose ==
    /\ qpc = "idle" /\ prepared
    /\ \E err \in BackendErrors :
          qlog' = qlog \o <<QEntry("backend", "StmtClose", 0, NoQuery, NilResult, err)>>
    /\ prepared' = FALSE
    /\ UNCHANGED <<currentDB, qpc, qevent, qstart, nQueries, predicate>>
    /\ QueryStep

\* no call to the backend: the two dispatches, one after the other
HandleOtherCommand(data) ==
    /\ predicate # "unset" /\ qpc = "idle"
    /\ nQueries < MaxQueries
    /\ \E ev \in {[Type |-> "other", Query |-> data, Args |-> <<>>, Database |-> currentDB,
                   Timestamp |-> QNow(0), Duration |-> 0, Error |-> "", RowCount |-> 0]} :
          /\ qevent' = ev
          /\ qlog' = qlog \o OnQuery(nQueries + 1, ev)
                          \o OnQueryComplete_mysql(nQueries + 1, ev, NilResult, "")
    /\ nQueries' = nQueries + 1
    /\ UNCHANGED <<currentDB, qpc, qstart, prepared, predicate>>
    /\ QueryStep

\* PluginManager.Close at the end of the process: Close of every plugin
QueryPluginsClose ==
    /\ predicate # "unset" /\ qpc = "idle"
    /\ qlog' = qlog \o FilterClose \o <<QEntry("LogPlugin", "Close", 0, NoQuery, NilResult, "")>>
    /\ qpc' = "closed"
    /\ UNCHANGED <<currentDB, qevent, qstart, nQueries, prepared, predicate>>
    /\ QueryStep

NextMySQL ==
    \/ \E p \in Predicates : NewFilterPlugin(p)
    \/ \E dbName \in DBNames : UseDB(dbName)
    \/ \E query \in Queries : HandleQuery(query)
    \/ \E table \in Tables : HandleFieldList(table, "%")
    \/ \E query \in Statements : HandleStmtPrepare(query)
    \/ \E query \in Statements : HandleStmtExecute(query, <<1>>)
    \/ HandleStmtClose
    \/ HandleOtherCommand("ping")
    \/ QueryPluginsClose

(***************************************************************************)
(* The web server: Server.clients, the map of WebSocket connections, and   *)
(* Server.clientsMu, its sync.RWMutex.  The goroutines are one connection  *)
(* handler per WebSocket client, the subscriber (which calls broadcast for *)
(* every message) and main (which calls Close).  wpc[g] names the next     *)
(* statement of g that takes the lock or touches the map.                  *)
(***************************************************************************)
Handlers == {"h1", "h2"}
Subscriber == "sub"
Main == "main"
Goroutines == Handlers \cup {Subscriber, Main}

\* how many messages the subscriber broadcasts in a run
MaxBroadcasts == 2

NoLock == [writer |-> "none", readers |-> {}]

InitWeb ==
    /\ clients = {}
    /\ clientsMu = NoLock
    /\ wpc = [g \in Goroutines |-> IF g \in Handlers THEN "Upgrade" ELSE "idle"]
    /\ visited = {}
    /\ cur = "none"
    /\ nBroadcasts = 0
    /\ fatal = FALSE

\* s.clientsMu.Lock() returns: nobody holds the lock in either mode
CanLock == clientsMu = NoLock

\* s.clientsMu.RLock() returns: nobody holds the write lock
CanRLock == clientsMu.writer = "none"

\* what the next statement of g does to the map: "read", "write" or "none"
Access(g) ==
    CASE wpc[g] \in {"insert", "delete", "evict"} -> "write"
      [] wpc[g] \in {"len1", "len2", "range", "closeAll"} -> "read"
      [] OTHER -> "none"

\* g holds the lock that keeps every other goroutine off the map
Exclusive(g) == clientsMu.writer = g

\* g holds the lock in either mode
Locked(g) == clientsMu.writer = g \/ g \in clientsMu.readers

\* two goroutines are at the map at once, one of them to modify it: a data
\* race
Race(g, h) == g # h /\ Access(g) = "write" /\ Access(h) # "none"

WebGoto(g, next) == wpc' = [wpc EXCEPT ![g] = next]

\* Server.handleWebSocket, for the connection of handler c
handleWebSocket(c) ==
    /\ ~fatal
    /\ \/ /\ wpc[c] = "Upgrade"
          /\ \/ WebGoto(c, "Lock1")
             \/ WebGoto(c, "done")
          /\ UNCHANGED <<clients, clientsMu>>
       \/ /\ wpc[c] = "Lock1" /\ CanLock
          /\ clientsMu' = [clientsMu EXCEPT !.writer = c]
          /\ WebGoto(c, "insert")
          /\ UNCHANGED clients
       \/ /\ wpc[c] = "insert"
          /\ clients' = clients \cup {c}
          /\ clientsMu' = [clientsMu EXCEPT !.writer = "none"]
          /\ WebGoto(c, "len1")
       \/ /\ wpc[c] = "len1"
          /\ WebGoto(c, "ReadMessage")
          /\ UNCHANGED <<clients, clientsMu>>
       \/ /\ wpc[c] = "ReadMessage"
          /\ WebGoto(c, "Lock2")
          /\ UNCHANGED <<clients, clientsMu>>
       \/ /\ wpc[c] = "Lock2" /\ CanLock
          /\ clientsMu' = [clientsMu EXCEPT !.writer = c]
          /\ WebGoto(c, "delete")
          /\ UNCHANGED clients
       \/ /\ wpc[c] = "delete"
          /\ clients' = clients \ {c}
          /\ clientsMu' = [clientsMu EXCEPT !.writer = "none"]
          /\ WebGoto(c, "len2")
       \/ /\ wpc[c] = "len2"
          /\ WebGoto(c, "done")
          /\ UNCHANGED <<clients, clientsMu>>
    /\ UNCHANGED <<visited, cur, nBroadcasts, fatal>>
    /\ WebStep

\* the error branch of client.WriteMessage in broadcast: client.Close();
\* delete(s.clients, client)
AfterWriteError == "evict"

\* Server.broadcast, called by the subscriber for one message
broadcast ==
    /\ ~fatal
    /\ \/ /\ wpc[Subscriber] = "idle" /\ nBroadcasts < MaxBroadcasts /\ CanRLock
          /\ clientsMu' = [clientsMu EXCEPT !.readers = @ \cup {Subscriber}]
          /\ nBroadcasts' = nBroadcasts + 1
          /\ visited' = {}
          /\ WebGoto(Subscriber, "range")
          /\ UNCHANGED <<clients, cur>>
       \/ /\ wpc[Subscriber] = "range"
          /\ IF clients \subseteq visited
             THEN /\ clientsMu' = [clientsMu EXCEPT !.readers = @ \ {Subscriber}]
                  /\ WebGoto(Subscriber, "idle")
                  /\ UNCHANGED <<visited, cur>>
             ELSE /\ \E client \in clients \ visited :
                        /\ cur' = client
                        /\ visited' = visited \cup {client}
                  /\ \/ WebGoto(Subscriber, "range")
                     \/ WebGoto(Subscriber, AfterWriteError)
                  /\ UNCHANGED clientsMu
          /\ UNCHANGED <<clients, nBroadcasts>>
       \/ /\ wpc[Subscriber] = "evict"
          /\ clients' = clients \ {cur}
          /\ WebGoto(Subscriber, "range")
          /\ UNCHANGED <<clientsMu, visited, cur, nBroadcasts>>
    /\ UNCHANGED fatal
    /\ WebStep

\* Server.Close, called by main
ServerClose ==
    /\ ~fatal
    /\ \/ /\ wpc[Main] = "idle" /\ CanLock
          /\ clientsMu' = [clientsMu EXCEPT !.writer = Main]
          /\ WebGoto(Main, "closeAll")
       \/ /\ wpc[Main] = "closeAll"
          /\ clientsMu' = [clientsMu EXCEPT !.writer = "none"]
          /\ WebGoto(Main, "closed")
    /\ UNCHANGED <<clients, visited, cur, nBroadcasts, fatal>>
    /\ WebStep

\* one outcome of a data race on a map: the runtime detects it and ends the
\* process ("fatal error: concurrent map read and map write"); the other
\* outcome is that both goroutines go on
ConcurrentMapAccess ==
    /\ ~fatal
    /\ \E g, h \in Goroutines : Race(g, h)
    /\ fatal' = TRUE
    /\ UNCHANGED <<clients, clientsMu, wpc, visited, cur, nBroadcasts>>
    /\ WebStep

NextWeb ==
    \/ \E c \in Handlers : handleWebSocket(c)
    \/ broadcast
    \/ ServerClose
    \/ ConcurrentMapAccess

(***************************************************************************)
(* The specifications.                                                     *)
(***************************************************************************)
InitHarness ==
    InitProc /\ InitSess /\ InitDec /\ InitPM /\ InitSink /\ InitQuery /\ InitWeb

\* the observers of the repository: LogPlugin and RedisPlugin read the Event
Quiet == [s \in Sessions |-> FALSE]

InitQuiet == InitHarness /\ meddling = Quiet /\ config = NoConfig /\ peers \in Runs(Peers)

Init == InitQuiet /\ hFails = {}

\* observers that overwrite every field of the Events of the first Session
\* and leave those of the second alone
MeddlingWithFirst == [s \in Sessions |-> s = "c1"]

InitObservers ==
    InitHarness /\ hFails = {} /\ config = NoConfig /\ peers \in Runs(Peers)
                /\ meddling = MeddlingWithFirst

\* the observers of the repository, and a backend of status replies
InitStatus ==
    InitHarness /\ hFails = {} /\ config = NoConfig /\ meddling = Quiet
                /\ peers \in Runs(StatusPeers)

\* the observers of the repository, and clients that declare wide lengths,
\* on a machine with memory and on one short of it
InitWide ==
    InitHarness /\ hFails = {} /\ config = NoConfig /\ meddling = Quiet
                /\ peers \in Runs(WidePeers) \cup {Short(p) : p \in Runs(WidePeers)}

\* the decoders on a machine with memory and on one short of it
InitFaults ==
    InitHarness /\ hFails = {} /\ config = NoConfig /\ meddling = Quiet
                /\ peers \in {Peers, Short(Peers)}

\* the observers of the repository, and a backend that answers with a tag
\* the decoder does not know
InitUnknown ==
    InitHarness /\ hFails = {} /\ config = NoConfig /\ meddling = Quiet
                /\ peers \in Runs(UnknownPeers)

\* a RedisPlugin of any configuration
InitRedisPlugin == InitHarness /\ hFails = {} /\ meddling = Quiet /\ peers \in Runs(Peers)

\* the proxy process
Spec == Init /\ [][NextProc]_vars

\* the decoders applied to valid units
SpecDecoder == Init /\ [][NextDec]_vars

\* the decoders on valid commands and on broken input
NextFaults ==
    DecodeCommand \/ DecodeBrokenCommand \/ DecodeBrokenResponse \/ NestBroken

SpecFaults == InitFaults /\ [][NextFaults]_vars

\* Register and Close of a PluginManager
SpecPluginManager == InitQuiet /\ [][NextPM]_vars

\* the proxy process, with observers that overwrite the Events of one Session
SpecObservers == InitObservers /\ [][NextProc]_vars

\* the proxy process, with a backend of status replies
SpecStatus == InitStatus /\ [][NextProc]_vars

\* the proxy process, with clients that declare wide lengths
SpecWide == InitWide /\ [][NextProc]_vars

\* the proxy process, with a backend that answers with an unknown tag
SpecUnknown == InitUnknown /\ [][NextProc]_vars

\* the MySQL variant
SpecMySQL == Init /\ [][NextMySQL]_vars

\* the goroutines of the web server
SpecWeb == Init /\ [][NextWeb]_vars

\* completion dispatches to a RedisPlugin and the observer after it
SpecRedisPlugin == InitRedisPlugin /\ [][NextSink]_vars

(***************************************************************************)
(* Reading a Session's trace.                                              *)
(***************************************************************************)
Steps(s) == 1..Len(trace[s])

\* the bytes fields of the entries of kind k, in order
BytesOf(s, k) ==
    LET es == SelectSeq(trace[s], LAMBDA e : e.k = k)
    IN  [i \in 1..Len(es) |-> es[i].bytes]

\* the observers called with kind k for operation op, in call order
Called(s, k, op) ==
    LET es == SelectSeq(trace[s], LAMBDA e : e.k = k /\ e.op = op)
    IN  [i \in 1..Len(es) |-> es[i].p]

Front(q) == SubSeq(q, 1, Len(q) - 1)

\* out is the concatenation of the units, the last of them possibly not
\* yet, or only partly, written
Relayed(out, units) ==
    /\ IsPrefix(out, Flatten(units))
    /\ units # <<>> => IsPrefix(Flatten(Front(units)), out)

IsNotification(e) == e.k \in {"OnCommand", "OnCommandComplete"}

(***************************************************************************)
(* C1: in every reachable state of a Session, the bytes written to the     *)
(* backend are the concatenation, in order, of the bytes consumed from the *)
(* client for the decoded commands, and the bytes written to the client    *)
(* are the concatenation, in order, of the bytes consumed from the backend *)
(* for the decoded response units: complete once the write has returned,   *)
(* and never with a byte added, dropped, reordered or rewritten.           *)
(***************************************************************************)
C1_ByteExactRelay ==
    \A s \in Sessions :
        /\ Relayed(toServer[s], BytesOf(s, "ReadCommand"))
        /\ Relayed(toClient[s], BytesOf(s, "ReadResponse"))
        /\ pc[s] \in {"ReadResponse", "Complete", "CompleteReadError", "WriteClient",
                      "ReadCommand"}
              => toServer[s] = Flatten(BytesOf(s, "ReadCommand"))
        /\ pc[s] = "ReadCommand" => toClient[s] = Flatten(BytesOf(s, "ReadResponse"))

\* a Session has relayed a multi-part and an inline command and two
\* responses, an array and an error reply
C1_Witness ==
    \E s \in Sessions :
        /\ pc[s] = "ReadCommand"
        /\ toServer[s] = CmdGet \o CmdPing
        /\ toClient[s] = ReplyArray \o ReplyErr

(***************************************************************************)
(* C2: for every valid command and every valid response unit, nested to    *)
(* depth 4, the raw bytes the decoder returns are the bytes of the unit    *)
(* and the reader is left at the first byte after the unit.                *)
(***************************************************************************)
C2_RoundTrip ==
    dkind # "none" => /\ dres.err = ""
                      /\ dres.raw = unit
                      /\ dres.rest = Trailer

C2_Witness ==
    /\ dkind = "resp"
    /\ depth >= 4
    /\ dres.raw = unit
    /\ dres.rest = Trailer

(***************************************************************************)
(* C3: the notifications of one Session come operation by operation: all   *)
(* OnCommand calls of an operation, then all its OnCommandComplete calls,  *)
(* and only then the OnCommand calls of the next operation.                *)
(***************************************************************************)
C3_PerSessionOrder ==
    \A s \in Sessions : \A j \in Steps(s) : \A i \in 1..(j - 1) :
        (IsNotification(trace[s][j]) /\ IsNotification(trace[s][i])) =>
            /\ trace[s][i].op <= trace[s][j].op
            /\ trace[s][i].op = trace[s][j].op =>
                  ~(trace[s][i].k = "OnCommandComplete" /\ trace[s][j].k = "OnCommand")
            /\ trace[s][i].op < trace[s][j].op =>
                  Len(Called(s, "OnCommandComplete", trace[s][i].op)) = Len(plugins)

\* two operations of one Session, each notified to two observers
C3_Witness ==
    \E s \in Sessions :
        /\ Len(plugins) = 2
        /\ SelectSeq([i \in Steps(s) |-> <<trace[s][i].k, trace[s][i].op>>],
                     LAMBDA x : x[1] \in {"OnCommand", "OnCommandComplete"})
           = << <<"OnCommand", 1>>, <<"OnCommand", 1>>,
                <<"OnCommandComplete", 1>>, <<"OnCommandComplete", 1>>,
                <<"OnCommand", 2>>, <<"OnCommand", 2>>,
                <<"OnCommandComplete", 2>>, <<"OnCommandComplete", 2>> >>

\* the steps at which the observers were told that operation op completed
CompletionsOf(s, op) ==
    {j \in Steps(s) : trace[s][j].k = "OnCommandComplete" /\ trace[s][j].op = op}

\* step i of the Session is of one of the kinds ks
IsStep(s, i, ks) == trace[s][i].k \in ks

(***************************************************************************)
(* C4: when the write to the backend or the read of the response fails     *)
(* after OnCommand was dispatched, OnCommandComplete is dispatched exactly *)
(* once (to every observer) for the same operation, after the failure and  *)
(* with a non-empty Error; and a Session that is closed, or back at        *)
(* reading a command, has completed every operation it began.              *)
(***************************************************************************)
C4_FailureStillCompletes ==
    \A s \in Sessions :
        /\ \A i \in Steps(s) :
              IsStep(s, i, {"WriteServerFailed", "ReadResponseFailed"}) =>
                  /\ Called(s, "OnCommandComplete", trace[s][i].op)
                        = Called(s, "OnCommand", trace[s][i].op)
                  /\ Called(s, "OnCommandComplete", trace[s][i].op) = plugins
                  /\ \A j \in CompletionsOf(s, trace[s][i].op) :
                        j > i /\ trace[s][j].err # <<>>
        /\ pc[s] \in {"Closed", "ReadCommand"} =>
              \A n \in 1..OpNo(s) :
                  Called(s, "OnCommandComplete", n) = Called(s, "OnCommand", n)

\* one Session closed on a failed write to the backend and the other on a
\* failed read of the response, with an observer registered
C4_Witness ==
    /\ plugins # <<>>
    /\ \E s, t \in Sessions :
        /\ pc[s] = "Closed" /\ pc[t] = "Closed"
        /\ \E i \in Steps(s) : IsStep(s, i, {"WriteServerFailed"})
        /\ \E i \in Steps(t) : IsStep(t, i, {"ReadResponseFailed"})

(***************************************************************************)
(* C5, as claimed: when a write to either peer fails, the Event of that    *)
(* operation is delivered to OnCommandComplete, of every observer, with    *)
(* its error set.                                                          *)
(***************************************************************************)
C5_AsClaimed ==
    \A s \in Sessions : \A i \in Steps(s) :
        IsStep(s, i, {"WriteServerFailed", "WriteClientFailed"}) =>
            /\ Called(s, "OnCommandComplete", trace[s][i].op) = plugins
            /\ \A j \in CompletionsOf(s, trace[s][i].op) : trace[s][j].err # <<>>

(***************************************************************************)
(* C5, amended: when the write of the command to the backend fails, the    *)
(* Event is delivered to OnCommandComplete after the failure with its      *)
(* error set.  When the write of the response to the client fails, the     *)
(* Event was delivered to OnCommandComplete before that write, once, and   *)
(* its error is set only if the response was classified as an error reply; *)
(* the failed write itself is not reported to the observers.               *)
(***************************************************************************)
C5_WriteFailure ==
    \A s \in Sessions : \A i \in Steps(s) :
        /\ IsStep(s, i, {"WriteServerFailed"}) =>
              /\ Called(s, "OnCommandComplete", trace[s][i].op) = plugins
              /\ \A j \in CompletionsOf(s, trace[s][i].op) :
                    j > i /\ trace[s][j].err # <<>>
        /\ IsStep(s, i, {"WriteClientFailed"}) =>
              /\ Called(s, "OnCommandComplete", trace[s][i].op) = plugins
              /\ i = Len(trace[s]) /\ pc[s] = "Closed"
              /\ \A j \in CompletionsOf(s, trace[s][i].op) :
                    /\ j < i
                    /\ trace[s][j].err # <<>> <=> IsErrorReply(event[s].Response)

\* both cases: a failed write to the backend in one Session, and in the
\* other a failed write to the client of a response that is no error reply
C5_Witness ==
    /\ plugins # <<>>
    /\ \E s, t \in Sessions :
        /\ \E i \in Steps(s) : IsStep(s, i, {"WriteServerFailed"})
        /\ \E i \in Steps(t) : IsStep(t, i, {"WriteClientFailed"})
        /\ event[t].Error = <<>>

(***************************************************************************)
(* C6: no byte of a command is written to the backend before OnCommand of  *)
(* every registered observer has returned, and no byte of a response is    *)
(* written to the client before OnCommandComplete of every registered      *)
(* observer has returned.                                                  *)
(***************************************************************************)
DispatchedBefore(s, i, k) ==
    LET es == SelectSeq(SubSeq(trace[s], 1, i - 1),
                        LAMBDA e : e.k = k /\ e.op = trace[s][i].op)
    IN  [n \in 1..Len(es) |-> es[n].p] = plugins

C6_DispatchBeforeForward ==
    \A s \in Sessions :
        /\ \A i \in Steps(s) :
              /\ IsStep(s, i, {"WriteServer", "WriteServerFailed"})
                    => DispatchedBefore(s, i, "OnCommand")
              /\ IsStep(s, i, {"WriteClient", "WriteClientFailed"})
                    => DispatchedBefore(s, i, "OnCommandComplete")
        /\ toServer[s] # <<>> => Called(s, "OnCommand", 1) = plugins
        /\ toClient[s] # <<>> => Called(s, "OnCommandComplete", 1) = plugins

\* a command and its response were forwarded with two observers registered
C6_Witness ==
    /\ Len(plugins) = 2
    /\ \E s \in Sessions :
        /\ toServer[s] # <<>> /\ toClient[s] # <<>>
        /\ \E i \in Steps(s) : IsStep(s, i, {"WriteClient"})

(***************************************************************************)
(* C7: every dispatch, of OnCommand and of OnCommandComplete, in every     *)
(* Session, calls each registered observer once, in the order of the       *)
(* Register calls (startRedisProxy registers the log plugin first).        *)
(***************************************************************************)
C7_RegistrationOrder ==
    /\ plugins \in {<<>>, <<LogPluginName>>, <<RedisPluginName>>,
                    <<LogPluginName, RedisPluginName>>}
    /\ \A s \in Sessions : \A i \in Steps(s) :
          IsNotification(trace[s][i]) =>
              Called(s, trace[s][i].k, trace[s][i].op) = plugins

\* both Sessions have dispatched both notifications to both observers
C7_Witness ==
    /\ plugins = <<LogPluginName, RedisPluginName>>
    /\ \A s \in Sessions :
          /\ Called(s, "OnCommand", 1) = plugins
          /\ Called(s, "OnCommandComplete", 1) = plugins

(***************************************************************************)
(* C8: PluginManager.Close calls Close of every registered observer once,  *)
(* in registration order, whichever of them fail, and returns nil.         *)
(***************************************************************************)
C8_CloseAll ==
    hPc = "closed" =>
        /\ [i \in 1..Len(hCalls) |-> hCalls[i].p] = hPlugins
        /\ \A i \in 1..Len(hCalls) : hCalls[i].err # "" <=> hCalls[i].p \in hFails
        /\ hRet = ""

\* three observers closed, the first one's Close failing
C8_Witness ==
    /\ hPc = "closed"
    /\ Len(hCalls) = 3
    /\ hCalls[1].err # ""
    /\ hCalls[3].err = ""

(***************************************************************************)
(* C9, as claimed: when main has received its signal and returned, Close   *)
(* has been called on every registered observer, once, in registration     *)
(* order.                                                                  *)
(***************************************************************************)
C9_AsClaimed == mainPc = "exited" => closeLog = plugins

(***************************************************************************)
(* C10: a Session reads (or tries to read) a command only as its first     *)
(* read or right after the write of the previous response to the client    *)
(* has returned; a command the client sent meanwhile stays unread.         *)
(***************************************************************************)
C10_NoPipelining ==
    \A s \in Sessions :
        /\ \A i \in Steps(s) :
              IsStep(s, i, {"ReadCommand", "ReadCommandFailed"}) =>
                  \/ /\ i = 2
                     /\ IsStep(s, 1, {"Dial"})
                  \/ /\ i > 2
                     /\ IsStep(s, i - 1, {"WriteClient"})
                     /\ trace[s][i - 1].op = IF IsStep(s, i, {"ReadCommand"})
                                              THEN trace[s][i].op - 1
                                              ELSE trace[s][i].op
        /\ (pc[s] = "ReadCommand" /\ OpNo(s) > 0) =>
              /\ IsStep(s, Len(trace[s]), {"WriteClient"})
              /\ trace[s][Len(trace[s])].op = OpNo(s)
              /\ Len(BytesOf(s, "WriteClient")) = OpNo(s)

\* the next command has arrived while the response of the operation in
\* flight is not yet written to the client
C10_Witness ==
    \E s \in Sessions :
        /\ pc[s] = "WriteClient"
        /\ clientBuf[s] = CmdPing
        /\ OpNo(s) = 1

(***************************************************************************)
(* C11: a Session whose dial to the backend failed has done nothing else:  *)
(* it built no Event, called no observer, read no command, wrote nothing,  *)
(* and has returned, which closes the client connection.                   *)
(***************************************************************************)
C11_DialFailure ==
    \A s \in Sessions :
        (trace[s] # <<>> /\ IsStep(s, 1, {"Dial"}) /\ trace[s][1].err # <<>>) =>
            /\ Len(trace[s]) = 1
            /\ event[s] = NoEvent
            /\ toServer[s] = <<>> /\ toClient[s] = <<>>
            /\ pc[s] = "Closed"
            /\ conns[s] = {}

\* the dial failed with observers registered and a command of the client
\* already waiting, which stays unread
C11_Witness ==
    /\ plugins # <<>>
    /\ \E s \in Sessions :
        /\ trace[s] # <<>> /\ trace[s][1].err # <<>>
        /\ clientBuf[s] = CmdGet
        /\ conns[s] = {}

(***************************************************************************)
(* C13: when reading a command or a response fails, the Session returns    *)
(* and both its sockets are closed: at once when a command failed, and     *)
(* after a response failed when the completion dispatch has returned,      *)
(* which the Session may wait for and nothing else; after the failure it   *)
(* only notifies the observers, and each peer has received whole decoded   *)
(* units only, no byte of the unit that failed.                            *)
(***************************************************************************)
C13_DecodeFailure ==
    \A s \in Sessions : \A i \in Steps(s) :
        IsStep(s, i, {"ReadCommandFailed", "ReadResponseFailed"}) =>
            /\ pc[s] \in {"Closed", "CompleteReadError"}
            /\ pc[s] = "CompleteReadError" =>
                  /\ IsStep(s, i, {"ReadResponseFailed"})
                  /\ DispatchWaits
                  /\ Called(s, "OnCommandComplete", trace[s][i].op) = plugins
            /\ pc[s] = "Closed" <=> conns[s] = {}
            /\ \A j \in Steps(s) : j > i => IsStep(s, j, {"OnCommandComplete"})
            /\ toServer[s] = Flatten(BytesOf(s, "ReadCommand"))
            /\ toClient[s] = Flatten(BytesOf(s, "ReadResponse"))

\* one Session met a malformed command, the other a malformed response,
\* each after consuming bytes of it
C13_Witness ==
    \E s, t \in Sessions :
        /\ \E i \in Steps(s) : /\ IsStep(s, i, {"ReadCommandFailed"})
                                /\ trace[s][i].bytes = CmdBadCount
        /\ \E i \in Steps(t) : /\ IsStep(t, i, {"ReadResponseFailed"})
                                /\ trace[t][i].bytes = ReplyBadLength

(***************************************************************************)
(* C18, as claimed: whatever the peers of a Session send, the process      *)
(* keeps running: no input ends it.                                        *)
(***************************************************************************)
C18_AsClaimed == mainPc # "crashed"

(***************************************************************************)
(* C12, as claimed: when one Session stops running, every other Session    *)
(* that was running still is, at the same place, and the accept loop still *)
(* accepts, unless the process is shutting down on its signal.             *)
(***************************************************************************)
C12_AsClaimed ==
    [][\A s, t \in Sessions :
          (/\ s # t
           /\ pc[s] \notin {"none", "Closed"} /\ pc'[s] \in {"none", "Closed"}
           /\ pc[t] \notin {"none", "Closed"}
           /\ mainPc' # "exited")
          => /\ pc'[t] = pc[t] /\ conns'[t] = conns[t] /\ trace'[t] = trace[t]
             /\ proxyPc' = "select" /\ Alive']_vars

(***************************************************************************)
(* C16, as claimed: the Error an observer is handed at OnCommandComplete   *)
(* is non-empty exactly when the operation failed: the write to the        *)
(* backend or the read of the response failed, or the backend answered     *)
(* with an error reply (a unit of type - or !).                            *)
(***************************************************************************)
OperationFailed(s, op) ==
    \E i \in Steps(s) :
        /\ trace[s][i].op = op
        /\ \/ IsStep(s, i, {"WriteServerFailed", "ReadResponseFailed"})
           \/ /\ IsStep(s, i, {"ReadResponse"})
              /\ Head(trace[s][i].bytes) \in {"-", "!"}

C16_AsClaimed ==
    \A s \in Sessions : \A i \in Steps(s) :
        IsStep(s, i, {"OnCommandComplete"}) =>
            (trace[s][i].err # <<>> <=> OperationFailed(s, trace[s][i].op))

(***************************************************************************)
(* C17: when a response has been decoded without error, the Event's Error  *)
(* is the response's summary if the summary begins with ERR, WRONGTYPE,    *)
(* NOAUTH or NOPERM, and empty otherwise, and that is the Error the        *)
(* observers were handed; either way the Session is about to write to the  *)
(* client the bytes it consumed for the response, and after the write it   *)
(* waits for the next command.                                             *)
(***************************************************************************)
WellKnownPrefixes ==
    {<<"E", "R", "R">>, <<"W", "R", "O", "N", "G", "T", "Y", "P", "E">>,
     <<"N", "O", "A", "U", "T", "H">>, <<"N", "O", "P", "E", "R", "M">>}

C17_ErrorClassification ==
    \A s \in Sessions :
        /\ pc[s] = "WriteClient" =>
              LET n == Len(trace[s]) - Len(plugins)
                  classified == \E x \in WellKnownPrefixes : IsPrefix(x, event[s].Response)
              IN  /\ IsStep(s, n, {"ReadResponse"})
                  /\ respRaw[s] = trace[s][n].bytes
                  /\ event[s].Error = IF classified THEN event[s].Response ELSE <<>>
                  /\ \A j \in (n + 1)..Len(trace[s]) :
                        /\ IsStep(s, j, {"OnCommandComplete"})
                        /\ trace[s][j].err = event[s].Error
        /\ \A i \in Steps(s) :
              LET n == i + Len(plugins) + 1
              IN  (IsStep(s, i, {"ReadResponse"}) /\ n <= Len(trace[s])) =>
                      /\ IsStep(s, n, {"WriteClient", "WriteClientFailed"})
                      /\ IsStep(s, n, {"WriteClient"}) =>
                            /\ trace[s][n].bytes = trace[s][i].bytes
                            /\ n = Len(trace[s]) => pc[s] = "ReadCommand"
                            /\ n < Len(trace[s]) =>
                                  IsStep(s, n + 1, {"ReadCommand", "ReadCommandFailed"})

\* an error reply was classified, handed to an observer, written to the
\* client as it came, and the Session has read its next command
C17_Witness ==
    \E s \in Sessions : \E i, j, n \in Steps(s) :
        /\ IsStep(s, i, {"ReadResponse"}) /\ trace[s][i].bytes = ReplyErr
        /\ IsStep(s, j, {"OnCommandComplete"})
        /\ trace[s][j].err = <<"E", "R", "R", " ", "x">>
        /\ i < j /\ j < n
        /\ IsStep(s, n, {"WriteClient"}) /\ trace[s][n].bytes = ReplyErr
        /\ n < Len(trace[s]) /\ IsStep(s, n + 1, {"ReadCommand"})

(***************************************************************************)
(* C20: a step that changes the registry is taken only while no connection *)
(* has been accepted: every Register of startRedisProxy runs before the    *)
(* accept loop starts, so none runs while, or after, a Session dispatches. *)
(***************************************************************************)
C20_RegistryFrozen ==
    [][plugins' # plugins =>
          \A s \in Sessions : /\ pc[s] = "none" /\ pc'[s] = "none"
                              /\ trace[s] = <<>>]_vars

\* both observers are registered and a Session has dispatched to them
C20_Witness ==
    /\ plugins = <<LogPluginName, RedisPluginName>>
    /\ \E s \in Sessions : \E i \in Steps(s) : IsStep(s, i, {"OnCommandComplete"})

(***************************************************************************)
(* C15: two runs of a Session, one with observers that overwrite every     *)
(* field of the Event they are handed and one with observers that leave it *)
(* alone: whenever the two have consumed the same bytes from their peers,  *)
(* with the same outcome of every read and write, the bytes they have      *)
(* placed on the backend socket are the same, and so are the bytes on the  *)
(* client socket.                                                          *)
(***************************************************************************)
\* what the peers did to the Session: the outcome of the dial, of each
\* read with the bytes consumed, and of each write
Run(s) ==
    LET es == SelectSeq(trace[s], LAMBDA e : ~IsNotification(e))
    IN  [i \in 1..Len(es) |->
            <<es[i].k, IF es[i].k \in {"ReadCommand", "ReadCommandFailed", "ReadResponse",
                                       "ReadResponseFailed"}
                       THEN es[i].bytes ELSE <<>> >>]

C15_ObserverIndependence ==
    \A s, t \in Sessions :
        (meddling[s] /\ ~meddling[t] /\ Run(s) = Run(t)) =>
            /\ toServer[s] = toServer[t]
            /\ toClient[s] = toClient[t]

\* the same command and the same response have gone through both runs, and
\* the observers have overwritten the Event of the first only
C15_Witness ==
    /\ plugins # <<>>
    /\ \E s, t \in Sessions :
        /\ meddling[s] /\ ~meddling[t]
        /\ Run(s) = Run(t)
        /\ event[s] = Meddled /\ event[t] # Meddled
        /\ toServer[s] = CmdGet
        /\ toClient[s] = ReplyArray

(***************************************************************************)
(* C19, as claimed: with the list sink and a cap K > 0, whenever no        *)
(* completion call is in flight the list holds the K most recently         *)
(* appended records (all of them when fewer were appended), newest first;  *)
(* with K = 0 it holds every appended record.                              *)
(***************************************************************************)
Quiescent == \A c \in Sessions : call[c].pc = "idle"

\* the n most recently appended records, newest first
Newest(n) ==
    [i \in 1..(IF n < Len(pushed) THEN n ELSE Len(pushed)) |-> pushed[Len(pushed) + 1 - i]]

C19_AsClaimed ==
    (config.UseList /\ Quiescent) =>
        list = Newest(IF config.MaxListLen > 0 THEN config.MaxListLen ELSE Len(pushed))

(***************************************************************************)
(* C19, amended: the list is at all times the newest appended records,     *)
(* newest first, with none missing in between; with K = 0 it holds every   *)
(* appended record.  With K > 0, whenever no completion call is in flight, *)
(* it holds the K most recent ones when the last trim sent to the store    *)
(* worked, and at most K + n of them after n trims in a row have failed:   *)
(* the next trim that works cuts it to K again.                            *)
(***************************************************************************)
C19_CappedList ==
    config.UseList =>
        /\ list = Newest(Len(list))
        /\ config.MaxListLen = 0 => list = Newest(Len(pushed))
        /\ (config.MaxListLen > 0 /\ Quiescent) =>
              /\ Len(list) <= config.MaxListLen + trimFailed
              /\ trimFailed = 0 => list = Newest(config.MaxListLen)

\* the records whose LPUSH worked and whose LTRIM failed
Untrimmed == {r \in Range(pushed) : \E c \in Sessions : r \in call[c].failed}

\* calls of both Sessions have appended more records than the cap, the trim
\* of one of them failed, a later trim worked, and the list holds the newest
C19_Witness ==
    /\ config.UseList /\ config.MaxListLen = MaxCap
    /\ Quiescent /\ trimFailed = 0
    /\ Len(pushed) > MaxCap
    /\ Untrimmed # {}
    /\ \A c \in Sessions : call[c].out # <<>>
    /\ list = Newest(MaxCap)

\* the trim of the last call has failed and the list is one record over the
\* cap, with every call returned
C19_WitnessOver ==
    /\ config.UseList /\ config.MaxListLen > 0
    /\ Quiescent /\ trimFailed = 1
    /\ Len(list) = config.MaxListLen + 1

(***************************************************************************)
(* C14: whether or not the store commands of the RedisPlugin fail, its     *)
(* call returns, the dispatch goes on to call the observer registered      *)
(* after it, and the Session forwards the response of every dispatch it    *)
(* began and goes on to the next.                                          *)
(***************************************************************************)
C14_ObserverFailure ==
    \A c \in Sessions :
        /\ call[c].pc \in {"idle", "LPush", "LTrim", "Publish", "Later", "Write"}
        /\ call[c].pc = "Write" => call[c].seen = HarnessRegistry
        /\ call[c].out = IF call[c].pc = "idle" THEN call[c].begun
                         ELSE Front(call[c].begun)

\* a Session whose dispatch met a store error has forwarded the response
\* of that dispatch, and its next dispatch, which met one too, has called
\* both observers
C14_Witness ==
    \E c \in Sessions :
        /\ call[c].pc = "Write"
        /\ call[c].seen = HarnessRegistry
        /\ Rec(c) \in call[c].failed
        /\ \E i \in 1..Len(call[c].out) : call[c].out[i] \in call[c].failed

(***************************************************************************)
(* What the harness's multi-part commands are made of, read off the input  *)
(* and not off the decoder's result.                                       *)
(***************************************************************************)
\* the element vectors of the multi-part commands
ElemVectors == UNION { [1..n -> BulkElems] : n \in 1..MaxElems }

\* the payload of an element, a null element having none
PayloadOf(elem) ==
    IF elem = NullBulk THEN <<>> ELSE CHOOSE p \in Payloads : EncodeBulk(p) = elem

\* the payloads in capitals, written out
Shouted(p) ==
    CASE p = <<"g", "e", "t">> -> <<"G", "E", "T">>
      [] p = <<"S", "e", "t", "1">> -> <<"S", "E", "T", "1">>
      [] p = <<"k">> -> <<"K">>
      [] p = <<"a", CR, LF, "b">> -> <<"A", CR, LF, "B">>
      [] p = <<>> -> <<>>
      [] p = NameAccent -> <<"G", "C3", "89", "T">>
      [] p = NameLatin1 -> <<"E9", "T">>

HasNull(e) == \E i \in 1..Len(e) : e[i] = NullBulk

(***************************************************************************)
(* C21, as claimed: for every multi-part command of N >= 1 byte-strings,   *)
(* readCommand returns the first byte-string in capitals as the operation  *)
(* and the other N-1 byte-strings, unchanged and in order, as the          *)
(* arguments; the raw bytes are the bytes as sent, in their original case. *)
(* In capitals, the letters of a byte-string are capital letters, those    *)
(* beyond ASCII included, and its other bytes are as they were.            *)
(***************************************************************************)
C21_AsClaimed ==
    dkind = "cmd" =>
        \A e \in ElemVectors :
            (unit = EncodeCmd(e) /\ ~HasNull(e)) =>
                /\ dres.err = ""
                /\ dres.command = Shouted(PayloadOf(e[1]))
                /\ dres.args = [i \in 1..(Len(e) - 1) |-> PayloadOf(e[i + 1])]
                /\ dres.raw = unit

\* what holds of the code: the same for every command whose first
\* byte-string is well-formed UTF-8; of another one every byte that is part
\* of no rune comes back as the three bytes of U+FFFD
C21_OperationAndArguments ==
    dkind = "cmd" =>
        \A e \in ElemVectors :
            (unit = EncodeCmd(e) /\ ~HasNull(e) /\ PayloadOf(e[1]) # NameLatin1) =>
                /\ dres.err = ""
                /\ dres.command = Shouted(PayloadOf(e[1]))
                /\ dres.args = [i \in 1..(Len(e) - 1) |-> PayloadOf(e[i + 1])]
                /\ dres.raw = unit

\* "Set1 k" was decoded: operation SET1, argument k, raw as sent
C21_Witness ==
    /\ dkind = "cmd"
    /\ unit = EncodeCmd(<<EncodeBulk(<<"S", "e", "t", "1">>), EncodeBulk(<<"k">>)>>)
    /\ dres.command = <<"S", "E", "T", "1">>
    /\ dres.args = << <<"k">> >>
    /\ dres.raw = unit

\* the name of one Latin-1 byte and a letter was decoded: the operation is
\* U+FFFD and T, four bytes for the two that were sent
C21_WitnessReplaced ==
    /\ dkind = "cmd"
    /\ unit = EncodeCmd(<<EncodeBulk(NameLatin1)>>)
    /\ dres.command = <<"EF", "BF", "BD", "T">>
    /\ dres.raw = unit

\* the inline commands of the harness with their tokens, the first in
\* capitals, written out
InlineTokens(u) ==
    CASE u = <<"P", "I", "N", "G">> \o CRLF -> << <<"P", "I", "N", "G">> >>
      [] u = <<"P", "I", "N", "G", LF>> -> << <<"P", "I", "N", "G">> >>
      [] u = <<"g", "e", "t", " ", "k">> \o CRLF -> << <<"G", "E", "T">>, <<"k">> >>
      [] u = <<" ", "s", "e", "t", " ", " ", "k", "\t", "v", " ">> \o CRLF ->
            << <<"S", "E", "T">>, <<"k">>, <<"v">> >>
      [] u = <<"I", "n", "c", "r", " ", "K", "e", "y">> \o CRLF ->
            << <<"I", "N", "C", "R">>, <<"K", "e", "y">> >>
      [] u = <<VT, "g", "e", "t">> \o NoBreakSpace \o <<"k">> \o EmSpace \o CRLF ->
            << <<"G", "E", "T">>, <<"k">> >>
      [] u = NameAccent \o <<" ", "k">> \o CRLF -> << <<"G", "C3", "89", "T">>, <<"k">> >>
      [] u = NameLatin1 \o <<" ", "k">> \o CRLF -> << <<"E9", "T">>, <<"k">> >>

(***************************************************************************)
(* C22, as claimed: a command whose first byte is not "*" is decoded as    *)
(* one line: the first whitespace-separated token in capitals is the       *)
(* operation, the other tokens in order are the arguments (none for PING), *)
(* and the raw bytes are the whole line with its terminator.               *)
(***************************************************************************)
C22_AsClaimed ==
    (dkind = "cmd" /\ unit[1] # "*") =>
        /\ unit \in InlineCommands
        /\ dres.err = ""
        /\ dres.command = Head(InlineTokens(unit))
        /\ dres.args = Tail(InlineTokens(unit))
        /\ dres.raw = unit
        /\ dres.rest = Trailer

\* what holds of the code: the same for every line whose first token is
\* well-formed UTF-8, the tokens being set apart by the spaces of Unicode
C22_InlineCommand ==
    (dkind = "cmd" /\ unit[1] # "*" /\ ~IsPrefix(NameLatin1, unit)) =>
        /\ unit \in InlineCommands
        /\ dres.err = ""
        /\ dres.command = Head(InlineTokens(unit))
        /\ dres.args = Tail(InlineTokens(unit))
        /\ dres.raw = unit
        /\ dres.rest = Trailer

\* the line " set  k<TAB>v " was decoded: operation SET, arguments k and v
C22_Witness ==
    /\ dkind = "cmd"
    /\ unit = <<" ", "s", "e", "t", " ", " ", "k", "\t", "v", " ">> \o CRLF
    /\ dres.command = <<"S", "E", "T">>
    /\ dres.args = << <<"k">>, <<"v">> >>
    /\ dres.raw = unit

(***************************************************************************)
(* C23: an element of length -1 in a multi-part command is a null          *)
(* argument: the decoder consumes its length line and nothing after it,    *)
(* and the element counts as one argument, an empty one.                   *)
(***************************************************************************)
C23_NullArgument ==
    dkind = "cmd" =>
        \A e \in ElemVectors :
            (unit = EncodeCmd(e) /\ HasNull(e)) =>
                /\ dres.err = ""
                /\ Len(dres.args) = Len(e) - 1
                /\ \A i \in 2..Len(e) :
                      dres.args[i - 1] = IF e[i] = NullBulk THEN <<>> ELSE PayloadOf(e[i])
                /\ e[1] = NullBulk => dres.command = <<>>
                /\ dres.raw = unit
                /\ dres.rest = Trailer

\* "get" with a null argument was decoded: one argument, empty, and the
\* reader is at the first byte after the null element's line
C23_Witness ==
    /\ dkind = "cmd"
    /\ unit = EncodeCmd(<<EncodeBulk(<<"g", "e", "t">>), NullBulk>>)
    /\ dres.command = <<"G", "E", "T">>
    /\ dres.args = << <<>> >>
    /\ dres.rest = Trailer

(***************************************************************************)
(* C24, as claimed: decoding a multi-part command returns an error, and no *)
(* operation, exactly when a count or length field is not a number, the    *)
(* count is negative or a length is negative and not -1, or the stream     *)
(* ends before an announced element is complete; every other multi-part    *)
(* command decodes successfully.                                           *)
(***************************************************************************)
C24_AsClaimed ==
    (dkind \in {"cmd", "brokencmd"} /\ unit[1] = "*") =>
        /\ dres.err # "" <=>
              unit \in MalformedFieldCommands \cup NegativeFieldCommands
                          \cup CutOffCommands
        /\ dres.err # "" => dres.command = <<>>

(***************************************************************************)
(* C25: the null bulk string "$-1" and the null tag "_" both decode        *)
(* without error to the summary "(nil)", the raw bytes being the bytes of  *)
(* the unit and nothing after the "$-1" line being consumed.               *)
(***************************************************************************)
C25_NullSummary ==
    (dkind = "resp" /\ unit \in {<<"$", "-", "1", CR, LF>>, <<"_", CR, LF>>}) =>
        /\ dres.err = ""
        /\ dres.summary = <<"(", "n", "i", "l", ")">>
        /\ dres.raw = unit
        /\ dres.rest = Trailer

\* the null tag was decoded
C25_Witness ==
    /\ dkind = "resp"
    /\ unit = <<"_", CR, LF>>
    /\ dres.summary = <<"(", "n", "i", "l", ")">>

\* and so was the null bulk string, the trailer left unread
C25_WitnessBulk ==
    /\ dkind = "resp"
    /\ unit = <<"$", "-", "1", CR, LF>>
    /\ dres.summary = <<"(", "n", "i", "l", ")">>
    /\ dres.rest = Trailer

(***************************************************************************)
(* The string units of the harness, read off the input.                    *)
(***************************************************************************)
\* the unit is the string unit of this tag with a payload of n bytes
IsString(tag, n) == dkind = "str" /\ unit = StringUnit(tag, n)

\* U+2026 HORIZONTAL ELLIPSIS in UTF-8, each byte named by its value
HorizontalEllipsis == <<"E2", "80", "A6">>

ThreeDots == <<".", ".", ".">>

\* the summary rule for the text c, with the given mark after a cut text
Summarized(c, mark) == IF Len(c) > SummaryMax THEN Take(c, SummaryMax) \o mark ELSE c

\* the text of a verbatim string as the decoder keeps it
Kept(payload) == IF Len(payload) > VerbatimTag THEN Drop(payload, VerbatimTag) ELSE payload

(***************************************************************************)
(* C26, as claimed: a bulk string, blob error or verbatim string with more *)
(* than 50 bytes of text is summarized as its first 50 bytes followed by   *)
(* the ellipsis character, one of 50 bytes or fewer as its full text, and  *)
(* the raw bytes hold the whole payload.  The text of a verbatim string is *)
(* its payload after the 4 bytes of the type tag.                          *)
(***************************************************************************)
C26_AsClaimed ==
    \A tag \in StringTags, n \in 0..MaxPayload :
        IsString(tag, n) =>
            /\ dres.err = ""
            /\ dres.summary = Summarized(IF tag = "=" THEN Drop(PayloadFor(tag, n), VerbatimTag)
                                         ELSE PayloadFor(tag, n),
                                         HorizontalEllipsis)
            /\ dres.raw = unit

(***************************************************************************)
(* What the decoder does where C26 asks for the ellipsis character: the    *)
(* mark after a cut text is three full stops; for a verbatim string the    *)
(* rule is applied to the text the decoder keeps.                          *)
(***************************************************************************)
C26_Truncation ==
    \A tag \in StringTags, n \in 0..MaxPayload :
        IsString(tag, n) =>
            /\ dres.err = ""
            /\ dres.summary = Summarized(IF tag = "=" THEN Kept(PayloadFor(tag, n))
                                         ELSE PayloadFor(tag, n),
                                         ThreeDots)
            /\ dres.raw = unit
            /\ dres.rest = Trailer

\* a blob error of 51 bytes was decoded: 50 bytes and three full stops
C26_Witness ==
    /\ IsString("!", SummaryMax + 1)
    /\ Len(dres.summary) = SummaryMax + 3
    /\ dres.summary[SummaryMax + 3] = "."
    /\ Len(dres.raw) > SummaryMax + 3

\* a bulk string of exactly 50 bytes was decoded: its full text
C26_WitnessFull ==
    /\ IsString("$", SummaryMax)
    /\ dres.summary = Text(SummaryMax)

(***************************************************************************)
(* C27, as claimed: the first 4 bytes of the payload of a verbatim string  *)
(* are left out of the summary whatever the length of the payload, 4       *)
(* bytes or fewer too, and the bulk-string rule applies to what is left.   *)
(***************************************************************************)
C27_AsClaimed ==
    \A n \in 0..MaxPayload :
        IsString("=", n) =>
            /\ dres.err = ""
            /\ dres.summary = Summarized(Drop(PayloadFor("=", n), VerbatimTag), ThreeDots)

(***************************************************************************)
(* C28, as claimed: an attribute that is decoded has had its 2N metadata   *)
(* units consumed and then one more unit, the value, whatever the number   *)
(* N >= 0 of pairs; its summary is the value's and its raw bytes are the   *)
(* count line, the metadata units and the value.  Here for attributes of   *)
(* siblings at the end of the stream, with the pairs they announce or      *)
(* with fewer.                                                             *)
(***************************************************************************)
C28_AsClaimed ==
    (dkind = "cut" /\ depth = 0 /\ unit[1] = "|" /\ dres.err = "") =>
        \E n \in 0..MaxCount :
            /\ IsPrefix(CountLine("|", n), unit)
            /\ dres.raw = CountLine("|", n) \o Siblings(2 * n + 1)
            /\ dres.summary = <<"1">>

(***************************************************************************)
(* C28 for the counts 0..MaxCount: decoding an attribute of N pairs        *)
(* consumes the 2N metadata units and the value; the summary is the one    *)
(* the value gives when decoded on its own, and the raw bytes are the      *)
(* count line, the metadata units and the value.                           *)
(* In a step that puts an attribute around unit, dres is the result of     *)
(* decoding unit on its own and dres' the result for the attribute.        *)
(***************************************************************************)
C28_AttributeUnwrapping ==
    [][\A n \in 0..MaxCount :
          unit' = CountLine("|", n) \o Siblings(2 * n) \o unit =>
              /\ dres'.err = ""
              /\ dres'.summary = dres.summary
              /\ dres'.raw = unit'
              /\ dres'.rest = Trailer]_vars

\* an attribute of two pairs around an array was decoded: the summary is
\* the array's
C28_Witness ==
    /\ dkind = "agg"
    /\ IsPrefix(CountLine("|", 2) \o Siblings(4) \o <<"*", "3">>, unit)
    /\ dres.summary = <<"(", "3", " ", "e", "l", "e", "m", "e", "n", "t", "s", ")">>
    /\ dres.raw = unit

\* and an attribute with no pair at all, around a status line
C28_WitnessEmpty ==
    /\ dkind = "agg"
    /\ unit = <<"|", "0", CR, LF, "+", "O", "K", CR, LF>>
    /\ dres.summary = <<"O", "K">>

(***************************************************************************)
(* The summaries of the aggregates, written out.                           *)
(***************************************************************************)
Noun(tag) == CASE tag \in {"*", ">"} -> <<"a", "r", "r", "a", "y">>
               [] tag = "%" -> <<"m", "a", "p">>
               [] tag = "~" -> <<"s", "e", "t">>

Plural(tag) == CASE tag \in {"*", ">"} -> <<"e", "l", "e", "m", "e", "n", "t", "s">>
                 [] tag = "%" -> <<"e", "n", "t", "r", "i", "e", "s">>
                 [] tag = "~" -> <<"m", "e", "m", "b", "e", "r", "s">>

AggregateSummary(tag, n) ==
    IF n = 0 - 1 THEN <<"(", "n", "i", "l", ")">>
    ELSE IF n = 0 THEN <<"(", "e", "m", "p", "t", "y", " ">> \o Noun(tag) \o <<")">>
    ELSE <<"(", Digits[n + 1], " ">> \o Plural(tag) \o <<")">>

(***************************************************************************)
(* C29, as claimed: an array, set or push of declared count N that is      *)
(* decoded has had N nested units consumed, and a map 2N; its summary is   *)
(* "(N elements)", "(N entries)" or "(N members)" and its raw bytes are    *)
(* the count line and the nested units.  Here for aggregates of siblings   *)
(* at the end of the stream, with the units they announce or with fewer.   *)
(***************************************************************************)
C29_AsClaimed ==
    \A tag \in CountedTags \ {"|"} :
        (dkind = "cut" /\ depth = 0 /\ unit[1] = tag /\ dres.err = "") =>
            \E n \in 1..MaxCount :
                /\ IsPrefix(CountLine(tag, n), unit)
                /\ dres.raw = CountLine(tag, n) \o Siblings(Announced(tag, n))
                /\ dres.summary = AggregateSummary(tag, n)

(***************************************************************************)
(* C29 for the counts -1..MaxCount: an array, set or push of declared      *)
(* count N consumes N nested units and a map 2N, none for N = -1 and       *)
(* N = 0; the summary is "(nil)" for -1, "(empty array)", "(empty map)",   *)
(* "(empty set)" for 0 and "(N elements)", "(N entries)", "(N members)"    *)
(* otherwise; the raw bytes are the count line and then the raw bytes of   *)
(* the nested units in order.                                              *)
(***************************************************************************)
C29_Aggregates ==
    [][\A tag \in CountedTags \ {"|"}, n \in (0 - 1)..MaxCount :
          (/\ dkind' = "agg"
           /\ unit' = CountLine(tag, n)
                         \o (IF n <= 0 THEN <<>>
                             ELSE Siblings((IF tag = "%" THEN 2 * n ELSE n) - 1) \o unit)) =>
              /\ dres'.err = ""
              /\ dres'.summary = AggregateSummary(tag, n)
              /\ dres'.raw = unit'
              /\ dres'.rest = Trailer]_vars

\* a map of two pairs was decoded: four nested units consumed
C29_Witness ==
    /\ dkind = "agg"
    /\ IsPrefix(CountLine("%", 2) \o Siblings(3), unit)
    /\ dres.summary = <<"(", "2", " ", "e", "n", "t", "r", "i", "e", "s", ")">>
    /\ dres.raw = unit
    /\ dres.rest = Trailer

\* a null set was decoded
C29_WitnessNil ==
    /\ dkind = "agg"
    /\ unit = <<"~", "-", "1", CR, LF>>
    /\ dres.summary = <<"(", "n", "i", "l", ")">>
    /\ dres.rest = Trailer

(***************************************************************************)
(* C30: when the decode of a nested unit fails, at any depth, the decode   *)
(* of the unit around it returns that error and an empty summary, and      *)
(* reads no unit after the failed one.                                     *)
(* In a step that puts an aggregate around unit, dres is the result of     *)
(* decoding unit on its own and dres' the result for the aggregate; a unit *)
(* that is not the last of the stream is followed by Trailer.  A decode    *)
(* that ends the process returns no error, and the decode of the unit      *)
(* around it ends the process in the same way.                             *)
(***************************************************************************)
C30_NestedFailure ==
    [][\A form \in WrapForms :
          (/\ dres.err \notin {"", "none"}
           /\ \/ dkind = "fault" /\ unit' = Wrap(form, unit)
              \/ dkind = "cut" /\ unit' = WrapLast(form, unit)) =>
              /\ dres'.err = dres.err
              /\ dres.err \notin Fatal =>
                    /\ dres'.summary = <<>>
                    /\ dres'.rest = IF dkind = "cut" THEN <<>>
                                    ELSE Take(dres.rest, Len(dres.rest) - Len(Trailer))
                                            \o Following(form) \o Trailer]_vars

\* a unit with a malformed length, three aggregates deep, the innermost an
\* array: the error came up and the sibling after the unit is unread
C30_Witness ==
    /\ dkind = "fault"
    /\ depth >= 3
    /\ dres.err = "invalid syntax"
    /\ dres.summary = <<>>
    /\ IsPrefix(Sibling, dres.rest)
    /\ Len(dres.rest) > Len(Sibling) + Len(Trailer)

\* a unit the stream ends in, two aggregates deep
C30_WitnessCutOff ==
    /\ dkind = "cut"
    /\ depth >= 2
    /\ dres.err = "unexpected EOF"
    /\ dres.summary = <<>>

(***************************************************************************)
(* C31: a response whose first byte is no tag the decoder knows is not a   *)
(* decode error: the decoder consumes the line, the summary is the tag     *)
(* character and the trimmed text of the line, the raw bytes are the tag   *)
(* byte and the line, and the Session writes them to the client and goes   *)
(* on to the next command.                                                 *)
(***************************************************************************)
UnknownTagged(bytes) == bytes # <<>> /\ bytes[1] \in {"?", "E9"}

\* the two units of unknown tag the backend sends, and their summaries: the
\* tag as a character (U+00E9 is two bytes in UTF-8) and the text
UnknownUnit(tag) ==
    IF tag = "?" THEN <<"?", " ", "h", "i", " ", CR, LF>>
    ELSE <<"E9", VT, "h", "i", "C2", "A0", CR, LF>>

UnknownSummary(tag) ==
    IF tag = "?" THEN <<"?", "h", "i">> ELSE <<"C3", "A9", "h", "i">>

C31_UnknownTag ==
    \A s \in Sessions :
        /\ (pc[s] = "WriteClient" /\ UnknownTagged(respRaw[s])) =>
              /\ respRaw[s] = UnknownUnit(respRaw[s][1])
              /\ event[s].Response = UnknownSummary(respRaw[s][1])
              /\ event[s].Error = <<>>
        /\ \A i \in Steps(s) :
              /\ trace[s][i].k = "ReadResponseFailed" => ~UnknownTagged(trace[s][i].bytes)
              /\ (trace[s][i].k = "ReadResponse" /\ UnknownTagged(trace[s][i].bytes)) =>
                    /\ trace[s][i].bytes = UnknownUnit(trace[s][i].bytes[1])
                    /\ pc[s] = "Closed" =>
                          \E j \in Steps(s) :
                              /\ j > i
                              /\ trace[s][j].k \in {"WriteClient", "WriteClientFailed"}
                              /\ trace[s][j].op = trace[s][i].op
                    /\ \A j \in Steps(s) :
                          (trace[s][j].k = "WriteClient" /\ trace[s][j].op = trace[s][i].op) =>
                              trace[s][j].bytes = trace[s][i].bytes

\* a Session has written a response of unknown tag, a byte beyond ASCII,
\* to its client and waits for the next command
C31_Witness ==
    \E s \in Sessions :
        /\ pc[s] = "ReadCommand"
        /\ toClient[s] = <<"E9", VT, "h", "i", "C2", "A0", CR, LF>>
        /\ trace[s][Len(trace[s])].k = "WriteClient"

(***************************************************************************)
(* C32: in each operation the start instant is taken when every observer's *)
(* OnCommand has returned and before the command is written to the         *)
(* backend, and the duration is fixed when the response has been decoded   *)
(* (or the write or the read has failed), before OnCommandComplete is      *)
(* dispatched and before any byte of the response is written to the        *)
(* client.  Step i of a Session runs from instant i - 1 to instant i of    *)
(* its clock.                                                              *)
(***************************************************************************)
\* the steps of the Session's current operation that are of the kinds ks
StepsOf(s, ks) == {i \in Steps(s) : trace[s][i].op = OpNo(s) /\ trace[s][i].k \in ks}

\* the instant at which the duration of the current operation was fixed
StopTime(s) == startTime[s] + event[s].Duration

C32_Timing ==
    \A s \in Sessions :
        /\ \A i \in StepsOf(s, {"ReadCommand", "OnCommand"}) : i <= startTime[s]
        /\ \A i \in StepsOf(s, {"WriteServer", "WriteServerFailed"}) : i > startTime[s]
        /\ StepsOf(s, {"WriteServerFailed", "ReadResponse", "ReadResponseFailed"}) # {} =>
              /\ \A i \in StepsOf(s, {"WriteServer", "WriteServerFailed", "ReadResponse",
                                      "ReadResponseFailed"}) : i <= StopTime(s)
              /\ \A i \in StepsOf(s, {"OnCommandComplete", "WriteClient",
                                      "WriteClientFailed"}) : i > StopTime(s)

\* a Session with observers has completed an operation: the instant of the
\* Event, the dispatch, the start instant, the write and the read that the
\* duration spans, the dispatch and the write to the client
C32_Witness ==
    \E s \in Sessions :
        /\ plugins # <<>>
        /\ StepsOf(s, {"OnCommand"}) # {}
        /\ StepsOf(s, {"OnCommandComplete"}) # {}
        /\ StepsOf(s, {"WriteClient"}) # {}
        /\ event[s].Timestamp < startTime[s]
        /\ event[s].Duration = 2

(***************************************************************************)
(* C33: a Session goes round the cycle reading a command, dispatching      *)
(* OnCommand, writing to the backend, reading the response, dispatching    *)
(* OnCommandComplete, writing to the client, and back; it becomes Closed   *)
(* only by a failed call (an I/O or decode failure, the end of the stream  *)
(* included) of the state it is in, when the completion dispatch of the    *)
(* failure, if there is one, has returned; once Closed it reads, writes    *)
(* and dispatches nothing more.                                            *)
(***************************************************************************)
\* the kinds of the steps a Session takes in a step of the system
NewKinds(s) ==
    [i \in 1..(Len(trace'[s]) - Len(trace[s])) |-> trace'[s][Len(trace[s]) + i].k]

\* the kind k, then one notification of kind n to each registered observer
WithDispatch(k, n) == <<k>> \o [i \in 1..Len(plugins) |-> n]

\* where a completion dispatch that began at from and is followed by to is
\* when it has called the observers: at to, or waiting for the last of them
Dispatched(from, to) ==
    IF ~DispatchWaits THEN to
    ELSE CASE from = "ReadResponse" /\ to = "WriteClient" -> "Complete"
           [] from = "WriteServer" /\ to = "Closed" -> "CompleteWriteError"
           [] from = "ReadResponse" /\ to = "Closed" -> "CompleteReadError"

\* the steps that take a Session from a state of the cycle to the next
CycleStep(from, to) ==
    CASE from = "ReadCommand" /\ to = "WriteServer" -> WithDispatch("ReadCommand", "OnCommand")
      [] from = "WriteServer" /\ to = "ReadResponse" -> <<"WriteServer">>
      [] from = "ReadResponse" /\ to = Dispatched("ReadResponse", "WriteClient") ->
             WithDispatch("ReadResponse", "OnCommandComplete")
      [] from = "WriteClient" /\ to = "ReadCommand" -> <<"WriteClient">>
      [] from = "ReadCommand" /\ to = "Closed" -> <<"ReadCommandFailed">>
      [] from = "WriteServer" /\ to = Dispatched("WriteServer", "Closed") ->
             WithDispatch("WriteServerFailed", "OnCommandComplete")
      [] from = "ReadResponse" /\ to = Dispatched("ReadResponse", "Closed") ->
             WithDispatch("ReadResponseFailed", "OnCommandComplete")
      [] from = "WriteClient" /\ to = "Closed" -> <<"WriteClientFailed">>
      [] OTHER -> <<"no such step">>

InCycle == {"ReadCommand", "WriteServer", "ReadResponse", "WriteClient"}

\* the step that ends the wait of a completion dispatch
DispatchReturns(from, to) ==
    \/ from = "Complete" /\ to = "WriteClient"
    \/ from \in {"CompleteWriteError", "CompleteReadError"} /\ to = "Closed"

C33_Cycle ==
    [][\A s \in Sessions :
          /\ (pc[s] \in InCycle /\ Alive' /\ trace'[s] # trace[s]) =>
                /\ pc'[s] \in InCycle \cup DispatchWaitsAt \cup {"Closed"}
                /\ NewKinds(s) = CycleStep(pc[s], pc'[s])
          /\ (pc[s] \in InCycle /\ Alive' /\ trace'[s] = trace[s]) => pc'[s] = pc[s]
          /\ (pc[s] \in DispatchWaitsAt /\ Alive') =>
                /\ trace'[s] = trace[s]
                /\ toServer'[s] = toServer[s] /\ toClient'[s] = toClient[s]
                /\ pc'[s] # pc[s] => DispatchReturns(pc[s], pc'[s])
          /\ (pc[s] = "Dial" /\ pc'[s] = "Closed") =>
                /\ NewKinds(s) = <<"Dial">>
                /\ trace'[s][Len(trace'[s])].err # <<>>
          /\ (pc[s] = "Closed" /\ Alive') =>
                /\ pc'[s] = "Closed"
                /\ trace'[s] = trace[s]
                /\ toServer'[s] = toServer[s] /\ toClient'[s] = toClient[s]
                /\ clientBuf'[s] = clientBuf[s] /\ serverBuf'[s] = serverBuf[s]
                /\ event'[s] = event[s]]_vars

\* a Session went round the cycle once and closed at the end of its
\* client's stream
C33_Witness ==
    \E s \in Sessions :
        /\ pc[s] = "Closed"
        /\ \E i \in Steps(s) : trace[s][i].k = "WriteClient"
        /\ trace[s][Len(trace[s])].k = "ReadCommandFailed"

(***************************************************************************)
(* C38: in every reachable state of a Session the responses written to the *)
(* client are at most the commands written to the backend, which are at    *)
(* most one more; the backend is read only after a command was written to  *)
(* it and before the completion of that command is dispatched, and a read  *)
(* consumes exactly one response unit, whatever else the backend has sent. *)
(***************************************************************************)
Count(s, k) == Cardinality({i \in Steps(s) : trace[s][i].k = k})

\* bytes are one response unit and nothing more
OneUnit(bytes) == \E r \in {readResponse(bytes)} : r.err = "" /\ r.raw = bytes /\ r.rest = <<>>

C38_OneResponsePerCommand ==
    \A s \in Sessions :
        /\ Count(s, "WriteClient") <= Count(s, "WriteServer")
        /\ Count(s, "WriteServer") <= Count(s, "WriteClient") + 1
        /\ Count(s, "ReadResponse") <= Count(s, "WriteServer")
        /\ Count(s, "WriteServer") <= Count(s, "ReadResponse") + 1
        /\ \A i \in Steps(s) :
              trace[s][i].k \in {"ReadResponse", "ReadResponseFailed"} =>
                  /\ i > 1
                  /\ trace[s][i - 1].k = "WriteServer"
                  /\ trace[s][i - 1].op = trace[s][i].op
                  /\ \A j \in 1..Len(plugins) :
                        /\ i + j <= Len(trace[s])
                        /\ trace[s][i + j].k = "OnCommandComplete"
                        /\ trace[s][i + j].op = trace[s][i].op
                  /\ trace[s][i].k = "ReadResponse" => OneUnit(trace[s][i].bytes)

\* the backend sent two units in one piece; the Session read one of them,
\* wrote it to the client and left the other unread
C38_Witness ==
    \E s \in Sessions :
        /\ pc[s] = "ReadCommand"
        /\ plugins # <<>>
        /\ Count(s, "WriteClient") = 1
        /\ serverBuf[s] = ReplyErr
        /\ toClient[s] = ReplyLatin1

(***************************************************************************)
(* C34: a FilterPlugin forwards an OnQuery or OnQueryComplete call to its  *)
(* inner observer if and only if the predicate holds for the Event as it   *)
(* is at that call, with the same Event, result and error; it forwards     *)
(* Close to the inner observer whatever the predicate.                     *)
(***************************************************************************)
QSteps == 1..Len(qlog)

\* the call after call i is the same call, made to the inner observer
Forwarded(i) ==
    /\ i < Len(qlog)
    /\ qlog[i + 1] = [qlog[i] EXCEPT !.who = "inner"]

C34_Filter ==
    \A i \in QSteps :
        /\ (qlog[i].who = "FilterPlugin" /\ qlog[i].method \in {"OnQuery", "OnQueryComplete"}) =>
              (Forwarded(i) <=>
                  CASE predicate = "always" -> TRUE
                    [] predicate = "never" -> FALSE
                    [] predicate = "query" -> qlog[i].event.Type = "query"
                    [] predicate = "slow" -> qlog[i].event.Duration > 0)
        /\ (qlog[i].who = "FilterPlugin" /\ qlog[i].method = "Close") => Forwarded(i)
        /\ qlog[i].who = "inner" => (i > 1 /\ Forwarded(i - 1))

\* a filter on the duration kept the OnQuery of an Event from its inner
\* observer and forwarded the OnQueryComplete of the same Event, with the
\* error of the backend; then it forwarded Close
C34_Witness ==
    /\ predicate = "slow"
    /\ \E i, j \in QSteps :
          /\ qlog[i].who = "FilterPlugin" /\ qlog[i].method = "OnQuery" /\ ~Forwarded(i)
          /\ qlog[j].who = "FilterPlugin" /\ qlog[j].method = "OnQueryComplete"
          /\ qlog[j].op = qlog[i].op /\ Forwarded(j)
          /\ qlog[j].err # ""
    /\ \E i \in QSteps : qlog[i].who = "inner" /\ qlog[i].method = "Close"

(***************************************************************************)
(* C35: in the MySQL variant, when the backend call of a query, prepare,   *)
(* execute, field-list or select-database operation returns an error, the  *)
(* Event given to OnQueryComplete has that error in its Error field; when  *)
(* it succeeds with a result, the Event has the result's number of rows in *)
(* RowCount.                                                               *)
(***************************************************************************)
C35_AsClaimed ==
    \A i \in QSteps :
        qlog[i].method = "OnQueryComplete" =>
            /\ qlog[i].err # "" => qlog[i].event.Error = qlog[i].err
            /\ (qlog[i].err = "" /\ qlog[i].result # NilResult) =>
                  qlog[i].event.RowCount = qlog[i].result.rows

\* what the handler does: the Event of every completion has an empty Error
\* and a RowCount of zero, whatever the backend returned
C35_NeverSet ==
    \A i \in QSteps : qlog[i].event.Error = "" /\ qlog[i].event.RowCount = 0

\* an observer was given the completion of a failed call, and another the
\* completion of a query that returned two rows
C35_Witness ==
    /\ \E i \in QSteps : qlog[i].method = "OnQueryComplete" /\ qlog[i].err # ""
    /\ \E i \in QSteps :
          /\ qlog[i].method = "OnQueryComplete" /\ qlog[i].err = ""
          /\ qlog[i].result = [rows |-> 2]

(***************************************************************************)
(* C36: each of UseDB, HandleQuery, HandleFieldList, HandleStmtPrepare,    *)
(* HandleStmtExecute and HandleOtherCommand dispatches exactly one OnQuery *)
(* and then exactly one OnQueryComplete for the same Event, the call to    *)
(* the backend (if the method makes one) between the two, whether or not   *)
(* that call fails; HandleStmtClose dispatches nothing.                    *)
(***************************************************************************)
\* the calls of method made to who for the Event numbered op
Calls(op, who, method) ==
    {i \in QSteps : qlog[i].op = op /\ qlog[i].who = who /\ qlog[i].method = method}

\* the calls to the backend made for the Event numbered op
BackendCalls(op) == {i \in QSteps : qlog[i].op = op /\ qlog[i].who = "backend"}

\* the method that created the Event numbered op has returned
Finished(op) == op < nQueries \/ qpc \in {"idle", "closed"}

OnePerEvent(op, who) ==
    \E b \in Calls(op, who, "OnQuery") :
        /\ Calls(op, who, "OnQuery") = {b}
        /\ IF Finished(op)
           THEN \E c \in Calls(op, who, "OnQueryComplete") :
                    /\ Calls(op, who, "OnQueryComplete") = {c}
                    /\ b < c
                    /\ qlog[b].event = [qlog[c].event EXCEPT !.Duration = 0]
                    /\ IF qlog[b].event.Type = "other"
                       THEN BackendCalls(op) = {}
                       ELSE \E k \in BackendCalls(op) :
                                BackendCalls(op) = {k} /\ b < k /\ k < c
           ELSE /\ Calls(op, who, "OnQueryComplete") = {}
                /\ BackendCalls(op) = {}

C36_Dispatches ==
    [][/\ \A op \in 1..nQueries' : OnePerEvent(op, "FilterPlugin")' /\ OnePerEvent(op, "LogPlugin")'
       /\ (Len(qlog') > Len(qlog) /\ qlog'[Len(qlog) + 1].method = "StmtClose") =>
             Len(qlog') = Len(qlog) + 1]_vars

\* the backend failed an execute, whose completion was dispatched all the
\* same, and a statement was closed
C36_Witness ==
    /\ \E i, j \in QSteps :
          /\ i < j
          /\ qlog[i].who = "backend" /\ qlog[i].method = "StmtExecute" /\ qlog[i].err # ""
          /\ qlog[j].who = "LogPlugin" /\ qlog[j].method = "OnQueryComplete"
          /\ qlog[j].op = qlog[i].op
    /\ \E i \in QSteps : qlog[i].method = "StmtClose"

(***************************************************************************)
(* C37: the current database of a handler changes only when UseDB has      *)
(* succeeded on the backend, and then it is the name asked for; a failed   *)
(* UseDB and every other method leave it as it was; every Event carries    *)
(* the database that was current when its method started.                  *)
(***************************************************************************)
\* the calls made in a step
NewCalls == SubSeq(qlog', Len(qlog) + 1, Len(qlog'))

C37_CurrentDB ==
    [][/\ currentDB' # currentDB =>
             /\ NewCalls[1].who = "backend" /\ NewCalls[1].method = "UseDB"
             /\ NewCalls[1].err = ""
             /\ currentDB' = NewCalls[1].event.Query
       /\ \A i \in 1..Len(NewCalls) :
             /\ (NewCalls[i].method = "UseDB" /\ NewCalls[i].err = "") =>
                   currentDB' = NewCalls[i].event.Query
             /\ (NewCalls[i].method = "UseDB" /\ NewCalls[i].err # "") =>
                   currentDB' = currentDB
             /\ NewCalls[i].method \in {"OnQuery", "OnQueryComplete"} =>
                   NewCalls[i].event.Database = currentDB
       /\ qevent' # qevent => qevent'.Database = currentDB]_vars

\* the backend refused a database and then accepted another: the handler's
\* current database is the second, and the completion of that UseDB carries
\* the database it replaced
C37_Witness ==
    /\ currentDB = "b"
    /\ \E i, j \in QSteps :
          /\ i < j
          /\ qlog[i].who = "backend" /\ qlog[i].method = "UseDB" /\ qlog[i].err # ""
          /\ qlog[j].who = "LogPlugin" /\ qlog[j].method = "OnQueryComplete"
          /\ qlog[j].event.Type = "use_db" /\ qlog[j].event.Query = "b"
          /\ qlog[j].err = "" /\ qlog[j].event.Database = "a"

(***************************************************************************)
(* C39: the web server's set of WebSocket clients is inserted into,        *)
(* deleted from and read only under a lock that keeps every concurrent     *)
(* modification out: no goroutine modifies the set holding only the shared *)
(* read lock, or no lock, while another goroutine may be at the set.       *)
(***************************************************************************)
C39_AsClaimed ==
    \A g, h \in Goroutines :
        (g # h /\ Access(g) = "write" /\ ~Exclusive(g)) => Access(h) = "none"

\* what holds of the code: the insert and the delete of a connection
\* handler are made under the write lock, and the loops of broadcast and
\* Close run under the lock, shared or not
C39_HandlersLock ==
    \A g \in Goroutines :
        /\ wpc[g] \in {"insert", "delete"} => Exclusive(g)
        /\ wpc[g] \in {"range", "evict", "closeAll"} => Locked(g)

\* broadcast is about to delete a connection it could not write to, with
\* the read lock only, while a handler is about to read the size of the map
\* with no lock
C39_Witness ==
    /\ wpc[Subscriber] = "evict" /\ ~Exclusive(Subscriber)
    /\ \E c \in Handlers : wpc[c] = "len1" /\ ~Locked(c)

(***************************************************************************)
(* C40, as claimed: on a finite stream that has ended readCommand and      *)
(* readResponse return; an aggregate that announces more units than the    *)
(* stream holds, and a bulk string that announces more bytes than the      *)
(* stream holds, return an end-of-stream error.                            *)
(***************************************************************************)
EndOfStreamErrors == {"EOF", "unexpected EOF"}

C40_AsClaimed ==
    /\ (dkind = "cut" /\ depth = 0 /\ unit \in CutOffUnits \cup HugeCountUnits) =>
          dres.err \in EndOfStreamErrors
    /\ (dkind = "brokencmd" /\ unit \in CutOffCommands) => dres.err \in EndOfStreamErrors

\* what holds of the code: every unit the stream ends in returns an
\* end-of-stream error, apart from the map and the attribute of count 2^62,
\* which are decoded with no nested unit read, and from the units whose
\* length or count the machine has no memory for, which end the process
C40_EndOfStream ==
    /\ (dkind = "cut" /\ depth = 0 /\ unit \in CutOffUnits \cup HugeCountUnits) =>
          IF unit \in HugeCountUnits /\ unit[1] \in {"%", "|"}
          THEN dres.err = ""
          ELSE dres.err \in EndOfStreamErrors \cup {"out of memory"}
    /\ (dkind = "brokencmd" /\ unit \in CutOffCommands) =>
          dres.err \in EndOfStreamErrors \cup {"out of memory"}

\* a map that announces 2^62 entries, on a stream that ends after two units
C40_Witness ==
    /\ dkind = "cut" /\ depth = 0
    /\ unit = Tagged("%", HalfIntDigits) \o Sibling \o Sibling
    /\ dres.err = ""

====
